---------------------------- MODULE Spec2Model ----------------------------
(***************************************************************************)
(* Model of src/app.py: the revenue normalizer (_build_concerts_from_local),*)
(* the expense enricher (_enrich_despesas), the monthly aggregator          *)
(* (_build_contabilidade), the tax estimator (_calc_irc) and the request    *)
(* handlers that write the JSON stores they read.                           *)
(*                                                                          *)
(* Text is a tuple of one-character strings, so that split, strip, the      *)
(* \bSUB\b search and the date formats are computed as the code computes    *)
(* them.  Money is an integer number of 1/10000 euro (Unit per euro, four   *)
(* decimals, the finest grain the code rounds to); a rate of the tax        *)
(* configuration is an integer number of tenths of a percent; a distance is *)
(* an integer number of tenths of a km (the cache holds round(x, 1)).       *)
(* round(x, n) is modelled on the exact decimal value, a tie going to the   *)
(* even neighbour as documented for round(); binary floating point error of *)
(* the Python floats is outside the model.                                  *)
(***************************************************************************)
EXTENDS Integers, Sequences, FiniteSets, TLC

(***************************************************************************)
(* Text                                                                     *)
(***************************************************************************)

\* the characters re treats as non-word (\b falls between a word character
\* and one of these, or the end of the text)
NonWordChars == {" ", "|", ",", "-", ":", "+", ".", "/"}

Whitespace == {" "}

Digits == <<"0", "1", "2", "3", "4", "5", "6", "7", "8", "9">>

\* the characters of the model's texts in code point order (str comparison)
CharOrder ==
    <<" ", "+", ",", "-", ".", "/",
      "0", "1", "2", "3", "4", "5", "6", "7", "8", "9", ":",
      "A", "B", "S", "T", "U", "Z", "a", "b", "e", "s", "v", "w", "x", "|">>

Ord(c) == CHOOSE i \in 1..Len(CharOrder) : CharOrder[i] = c

\* s < t for two texts, as Python compares str
RECURSIVE StrLess(_, _)
StrLess(s, t) ==
    IF t = <<>> THEN FALSE
    ELSE IF s = <<>> THEN TRUE
    ELSE IF Head(s) = Head(t) THEN StrLess(Tail(s), Tail(t))
    ELSE Ord(Head(s)) < Ord(Head(t))

\* str.find: the first index of character c in s, 0 when absent
IndexOf(s, c) ==
    IF \E i \in 1..Len(s) : s[i] = c
    THEN CHOOSE i \in 1..Len(s) : s[i] = c /\ \A j \in 1..(i - 1) : s[j] # c
    ELSE 0

\* str.strip()
RECURSIVE LStrip(_)
LStrip(s) ==
    IF s # <<>> /\ Head(s) \in Whitespace THEN LStrip(Tail(s)) ELSE s

RECURSIVE RStrip(_)
RStrip(s) ==
    IF s # <<>> /\ s[Len(s)] \in Whitespace
    THEN RStrip(SubSeq(s, 1, Len(s) - 1))
    ELSE s

Strip(s) == RStrip(LStrip(s))

\* re.search(r'\bSUB\b', s): the start of the first match, 0 when none
SubMatch(s) ==
    LET IsMatch(i) ==
            /\ i + 2 <= Len(s)
            /\ s[i] = "S" /\ s[i + 1] = "U" /\ s[i + 2] = "B"
            /\ (i = 1 \/ s[i - 1] \in NonWordChars)
            /\ (i + 2 = Len(s) \/ s[i + 3] \in NonWordChars)
    IN  IF \E i \in 1..Len(s) : IsMatch(i)
        THEN CHOOSE i \in 1..Len(s) :
                 IsMatch(i) /\ \A j \in 1..(i - 1) : ~IsMatch(j)
        ELSE 0

\* parse_event_title: "Artista | Evento, Local [SUB Substituto]"
parse_event_title(summary) ==
    IF summary = <<>>
    THEN [artista |-> <<>>, evento |-> <<>>, local |-> <<>>, substituto |-> <<>>]
    ELSE
    LET bar     == IndexOf(summary, "|")
        artista == IF bar > 0 THEN Strip(SubSeq(summary, 1, bar - 1))
                   ELSE Strip(summary)
        rest    == IF bar > 0 THEN Strip(SubSeq(summary, bar + 1, Len(summary)))
                   ELSE <<>>
        comma   == IndexOf(rest, ",")
        evento  == IF comma > 0 THEN Strip(SubSeq(rest, 1, comma - 1))
                   ELSE Strip(rest)
        local_part == IF comma > 0 THEN Strip(SubSeq(rest, comma + 1, Len(rest)))
                      ELSE <<>>
        sub     == SubMatch(local_part)
    IN  [artista    |-> artista,
         evento     |-> evento,
         local      |-> IF sub > 0 THEN Strip(SubSeq(local_part, 1, sub - 1))
                        ELSE local_part,
         substituto |-> IF sub > 0
                        THEN Strip(SubSeq(local_part, sub + 3, Len(local_part)))
                        ELSE <<>>]

(***************************************************************************)
(* Numbers                                                                  *)
(***************************************************************************)

\* 1/10000 euro per euro: the model's money unit
Unit == 10000

\* one cent in money units (a value with 2 decimals is a multiple of it)
Cent == 100

IsDigit(c) == \E i \in 1..10 : Digits[i] = c

DigitVal(c) == (CHOOSE i \in 1..10 : Digits[i] = c) - 1

RECURSIVE DigitsVal(_)
DigitsVal(s) ==
    IF s = <<>> THEN 0
    ELSE 10 * DigitsVal(SubSeq(s, 1, Len(s) - 1)) + DigitVal(s[Len(s)])

AllDigits(s) == \A i \in 1..Len(s) : IsDigit(s[i])

\* n / d rounded to the nearest integer, a tie to the even neighbour (d > 0)
RoundDiv(n, d) ==
    LET q == n \div d
        r == n - q * d
    IN  IF 2 * r < d THEN q
        ELSE IF 2 * r > d THEN q + 1
        ELSE IF q % 2 = 0 THEN q ELSE q + 1

\* round(x, 2) of a money value
Round2(x) == RoundDiv(x, Cent) * Cent

\* float(text.replace(',', '.')): optional sign, digits, optional point and
\* up to four decimals; FloatOk is FALSE where float() raises ValueError
FloatParts(text) ==
    LET s     == Strip(text)
        body  == IF s # <<>> /\ Head(s) \in {"-", "+"} THEN Tail(s) ELSE s
        dot   == IF IndexOf(body, ".") > 0 THEN IndexOf(body, ".")
                 ELSE IndexOf(body, ",")
    IN  [neg |-> s # <<>> /\ Head(s) = "-",
         ip  |-> IF dot > 0 THEN SubSeq(body, 1, dot - 1) ELSE body,
         fp  |-> IF dot > 0 THEN SubSeq(body, dot + 1, Len(body)) ELSE <<>>]

FloatOk(text) ==
    LET p == FloatParts(text)
    IN  /\ AllDigits(p.ip) /\ AllDigits(p.fp)
        /\ Len(p.ip) + Len(p.fp) > 0 /\ Len(p.fp) <= 4

\* the value of a text FloatOk accepts, in 1/10000
FloatVal(text) ==
    LET p   == FloatParts(text)
        pad == p.fp \o SubSeq(<<"0", "0", "0", "0">>, 1, 4 - Len(p.fp))
    IN  (IF p.neg THEN -1 ELSE 1) * (DigitsVal(p.ip) * Unit + DigitsVal(pad))

\* a JSON number of money units, and a JSON string
Num(x) == [t |-> "num", v |-> x, s |-> <<>>]
Str(s) == [t |-> "str", v |-> 0, s |-> s]
Null   == [t |-> "null", v |-> 0, s |-> <<>>]

\* _to_float(v) of a JSON value: None and '' give 0.0, a number itself,
\* a text its float() and 0.0 when float() raises
to_float(v) ==
    IF v.t = "null" \/ (v.t = "str" /\ v.s = <<>>) THEN 0
    ELSE IF v.t = "num" THEN v.v
    ELSE IF FloatOk(v.s) THEN FloatVal(v.s) ELSE 0

(***************************************************************************)
(* Dates                                                                    *)
(***************************************************************************)

IsLeap(y) == (y % 4 = 0 /\ y % 100 # 0) \/ y % 400 = 0

DaysInMonth(y, m) ==
    IF m = 2 THEN (IF IsLeap(y) THEN 28 + 1 ELSE 28)
    ELSE IF m \in {4, 6, 9, 11} THEN 30 ELSE 31

\* the result of a parse that raised
NoDate == [ok |-> FALSE, year |-> 0, month |-> 0, day |-> 0,
           hour |-> 0, minute |-> 0, offset |-> 0]

\* a valid calendar day, as datetime() checks it
ValidDay(y, m, d) == y >= 1 /\ m \in 1..12 /\ d >= 1 /\ d <= DaysInMonth(y, m)

\* datetime.strptime(text, '%Y-%m-%d'): four digits of year, one or two of
\* month and of day
strptime_ymd(text) ==
    LET d1 == IndexOf(text, "-")
        r1 == IF d1 > 0 THEN SubSeq(text, d1 + 1, Len(text)) ELSE <<>>
        d2 == IndexOf(r1, "-")
        ys == IF d1 > 0 THEN SubSeq(text, 1, d1 - 1) ELSE <<>>
        ms == IF d2 > 0 THEN SubSeq(r1, 1, d2 - 1) ELSE <<>>
        ds == IF d2 > 0 THEN SubSeq(r1, d2 + 1, Len(r1)) ELSE <<>>
    IN  IF /\ d1 > 0 /\ d2 > 0
           /\ Len(ys) = 4 /\ AllDigits(ys)
           /\ Len(ms) \in 1..2 /\ AllDigits(ms)
           /\ Len(ds) \in 1..2 /\ AllDigits(ds)
           /\ ValidDay(DigitsVal(ys), DigitsVal(ms), DigitsVal(ds))
        THEN [ok |-> TRUE, year |-> DigitsVal(ys), month |-> DigitsVal(ms),
              day |-> DigitsVal(ds), hour |-> 0, minute |-> 0, offset |-> 0]
        ELSE NoDate

\* text.replace('Z', '+00:00')
RECURSIVE ReplaceZ(_)
ReplaceZ(s) ==
    IF s = <<>> THEN <<>>
    ELSE IF Head(s) = "Z"
         THEN <<"+", "0", "0", ":", "0", "0">> \o ReplaceZ(Tail(s))
         ELSE <<Head(s)>> \o ReplaceZ(Tail(s))

\* datetime.fromisoformat(text) for YYYY-MM-DDTHH:MM[:SS][(+|-)HH:MM]
fromisoformat(text) ==
    LET n     == Len(text)
        secs  == n \in {19, 25}
        tzAt  == IF n = 22 THEN 17 ELSE IF n = 25 THEN 20 ELSE 0
        two(i) == SubSeq(text, i, i + 1)
        okNum(i) == AllDigits(two(i))
        y     == DigitsVal(SubSeq(text, 1, 4))
        mo    == DigitsVal(two(6))
        d     == DigitsVal(two(9))
        h     == DigitsVal(two(12))
        mi    == DigitsVal(two(15))
    IN  IF /\ n \in {16, 19, 22, 25}
           /\ AllDigits(SubSeq(text, 1, 4)) /\ text[5] = "-"
           /\ okNum(6) /\ text[8] = "-" /\ okNum(9)
           /\ okNum(12) /\ text[14] = ":" /\ okNum(15)
           /\ (secs => text[17] = ":" /\ okNum(18) /\ DigitsVal(two(18)) < 60)
           /\ (tzAt > 0 => /\ text[tzAt] \in {"+", "-"}
                           /\ okNum(tzAt + 1) /\ text[tzAt + 3] = ":"
                           /\ okNum(tzAt + 4)
                           /\ DigitsVal(two(tzAt + 1)) < 24
                           /\ DigitsVal(two(tzAt + 4)) < 60)
           /\ ValidDay(y, mo, d) /\ h < 24 /\ mi < 60
        THEN [ok |-> TRUE, year |-> y, month |-> mo, day |-> d,
              hour |-> h, minute |-> mi,
              offset |-> IF tzAt = 0 THEN 0
                         ELSE (IF text[tzAt] = "-" THEN -1 ELSE 1)
                              * (60 * DigitsVal(two(tzAt + 1))
                                 + DigitsVal(two(tzAt + 4)))]
        ELSE NoDate

\* the start of an event as _build_concerts_from_local reads it: with a 'T'
\* an ISO date-time (Z read as +00:00), without one a date at UTC midnight
parse_start(start_raw) ==
    IF IndexOf(start_raw, "T") > 0
    THEN fromisoformat(ReplaceZ(start_raw))
    ELSE strptime_ymd(start_raw)

\* an integer as decimal digits, zero-padded to width w
RECURSIVE ZeroPad(_, _)
ZeroPad(n, w) ==
    IF w = 0 THEN <<>> ELSE ZeroPad(n \div 10, w - 1) \o <<Digits[(n % 10) + 1]>>

\* str(n) of an integer
RECURSIVE IntText(_)
IntText(n) ==
    IF n < 0 THEN <<"-">> \o IntText(-n)
    ELSE IF n < 10 THEN <<Digits[n + 1]>>
    ELSE IntText(n \div 10) \o <<Digits[(n % 10) + 1]>>

\* the date text.strftime('%Y-%m-%d')
FormatYmd(y, m, d) == ZeroPad(y, 4) \o <<"-">> \o ZeroPad(m, 2) \o <<"-">> \o ZeroPad(d, 2)

\* _SHEETS_EPOCH + timedelta(days=n): the civil date n days after 30/12/1899
sheets_epoch_plus(n) ==
    LET z   == n - 25569 + 719468
        era == z \div 146097
        doe == z - era * 146097
        yoe == (doe - doe \div 1460 + doe \div 36524 - doe \div 146096) \div 365
        doy == doe - (365 * yoe + yoe \div 4 - yoe \div 100)
        mp  == (5 * doy + 2) \div 153
        m   == IF mp < 10 THEN mp + 3 ELSE mp - 9
    IN  [year  |-> yoe + era * 400 + (IF m <= 2 THEN 1 ELSE 0),
         month |-> m,
         day   |-> doy - (153 * mp + 2) \div 5 + 1]

\* datetime.strptime(text, '%d/%m/%Y')
strptime_dmy(text) ==
    LET d1 == IndexOf(text, "/")
        r1 == IF d1 > 0 THEN SubSeq(text, d1 + 1, Len(text)) ELSE <<>>
        d2 == IndexOf(r1, "/")
        ds == IF d1 > 0 THEN SubSeq(text, 1, d1 - 1) ELSE <<>>
        ms == IF d2 > 0 THEN SubSeq(r1, 1, d2 - 1) ELSE <<>>
        ys == IF d2 > 0 THEN SubSeq(r1, d2 + 1, Len(r1)) ELSE <<>>
    IN  IF /\ d1 > 0 /\ d2 > 0
           /\ Len(ys) = 4 /\ AllDigits(ys)
           /\ Len(ms) \in 1..2 /\ AllDigits(ms)
           /\ Len(ds) \in 1..2 /\ AllDigits(ds)
           /\ ValidDay(DigitsVal(ys), DigitsVal(ms), DigitsVal(ds))
        THEN [ok |-> TRUE, year |-> DigitsVal(ys), month |-> DigitsVal(ms),
              day |-> DigitsVal(ds), hour |-> 0, minute |-> 0, offset |-> 0]
        ELSE NoDate

\* _sheets_date(v): a positive serial number of the sheet becomes its date,
\* DD/MM/YYYY becomes YYYY-MM-DD, any other text is kept stripped
sheets_date(v) ==
    IF v.t = "num" /\ v.v > 0
    THEN LET c == sheets_epoch_plus(v.v) IN FormatYmd(c.year, c.month, c.day)
    ELSE LET t == IF v.t = "num" THEN IntText(v.v) ELSE Strip(v.s)
             dt == strptime_dmy(t)
         IN  IF IndexOf(t, "/") > 0 /\ dt.ok
             THEN FormatYmd(dt.year, dt.month, dt.day)
             ELSE t

(***************************************************************************)
(* Revenue normalizer                                                       *)
(***************************************************************************)

RECURSIVE Sum(_)
Sum(seq) == IF seq = <<>> THEN 0 ELSE Head(seq) + Sum(Tail(seq))

\* dict.get(k, default)
GetOr(d, k, default) == IF k \in DOMAIN d THEN d[k] ELSE default

\* the dict d with d[k] = v
Put(d, k, v) == [j \in DOMAIN d \cup {k} |-> IF j = k THEN v ELSE d[j]]

\* the dict d without key k
Pop(d, k) == [j \in DOMAIN d \ {k} |-> d[j]]

\* the empty dict
EmptyDict == [j \in {} |-> 0]

\* the artistas of all agencies, in file order
RECURSIVE FlatArtistas(_)
FlatArtistas(ags) ==
    IF ags = <<>> THEN <<>>
    ELSE Head(ags).artistas \o FlatArtistas(Tail(ags))

\* _build_artist_base_cachet: nome -> cachet_base over the artistas that
\* have both; a later entry of the same nome replaces an earlier one
build_artist_base_cachet(ags) ==
    LET fl    == FlatArtistas(ags)
        has   == {i \in 1..Len(fl) :
                     fl[i].nome # <<>> /\ fl[i].cachet_base # <<>>}
        last(n) == CHOOSE i \in has :
                     fl[i].nome = n /\ \A j \in has : fl[j].nome = n => j <= i
    IN  [n \in {fl[i].nome : i \in has} |-> fl[last(n)].cachet_base]

\* sorted(events, key=start): a stable sort by the start text
RECURSIVE sort_by_start(_)
sort_by_start(evs) ==
    IF evs = <<>> THEN <<>>
    ELSE LET n    == Len(evs)
             done == sort_by_start(SubSeq(evs, 1, n - 1))
             e    == evs[n]
             \* e goes behind every element whose start is not greater
             k    == Cardinality({i \in 1..Len(done) :
                                     ~StrLess(e.start, done[i].start)})
         IN  SubSeq(done, 1, k) \o <<e>> \o SubSeq(done, k + 1, Len(done))

\* a lookup that takes the override only when it is not empty
override_or_nonempty(ov, field, parsed) ==
    IF field \in DOMAIN ov /\ ov[field] # <<>> THEN ov[field] ELSE parsed

\* a lookup that takes the override only when the title gives nothing
override_or_title_first(ov, field, parsed) ==
    IF parsed # <<>> THEN parsed ELSE GetOr(ov, field, parsed)

\* ov.get(field, parsed): the override entry of a text field wins whenever
\* the override record holds the field
override_or(ov, field, parsed) == GetOr(ov, field, parsed)

\* a fee that is not forced to zero by a substitute
cachet_of_unforced(ov, artist_base, artista, substituto) ==
    IF GetOr(ov, "cachet", <<>>) # <<>> THEN ov["cachet"]
    ELSE GetOr(artist_base, artista, <<>>)

\* ov.get('cachet', '') or artist_base.get(artista, ''), and '0' for an
\* event with a substitute
cachet_of(ov, artist_base, artista, substituto) ==
    LET own == GetOr(ov, "cachet", <<>>)
        fee == IF own # <<>> THEN own ELSE GetOr(artist_base, artista, <<>>)
    IN  IF substituto # <<>> THEN <<"0">> ELSE fee

\* distances.get(local) if local else None, '' for None
km_of(dists, local) ==
    IF local # <<>> /\ local \in DOMAIN dists THEN Num(dists[local])
    ELSE Str(<<>>)

\* one entry of concerts_list
concert_of(ev, cdata, artist_base, dists) ==
    LET dt   == parse_start(ev.start)
        p    == parse_event_title(ev.summary)
        ov   == GetOr(cdata, ev.id, EmptyDict)
        artista    == override_or(ov, "artista", p.artista)
        evento     == override_or(ov, "evento", p.evento)
        local      == override_or(ov, "local", p.local)
        substituto == override_or(ov, "substituto", p.substituto)
    IN  [id |-> ev.id,
         year  |-> IF dt.ok THEN dt.year ELSE 0,
         month |-> IF dt.ok THEN dt.month ELSE 0,
         artista |-> artista, evento |-> evento, local |-> local,
         substituto |-> substituto,
         cachet |-> cachet_of(ov, artist_base, artista, substituto),
         km |-> km_of(dists, local)]

\* _build_concerts_from_local over the base events, the overrides, the
\* agencies and the distance cache (the date and time display texts of an
\* entry are left out)
build_concerts_from_local(baseS, cdata, ags, dists) ==
    LET sorted == sort_by_start(baseS)
        ab     == build_artist_base_cachet(ags)
    IN  [i \in 1..Len(sorted) |-> concert_of(sorted[i], cdata, ab, dists)]

(***************************************************************************)
(* Expense enricher                                                         *)
(***************************************************************************)

\* _SNC_MAP: expense category -> SNC account
SNC_MAP ==
    [c \in {"Telecomunicações", "Electricidade e Energia", "Água e Saneamento",
            "Combustíveis e Lubrificantes", "Material de Escritório",
            "Alimentação e Bebidas", "Alojamento e Hotelaria",
            "Transportes e Deslocações", "Software e Tecnologia",
            "Publicidade e Marketing", "Seguros",
            "Contabilidade e Consultoria", "Serviços Jurídicos",
            "Saúde e Bem-estar", "Formação e Educação",
            "Manutenção e Reparação", "Rendas e Alugueres", "Outros"} |->
       CASE c = "Telecomunicações" -> "6228"
         [] c \in {"Electricidade e Energia", "Água e Saneamento"} -> "6221"
         [] c = "Combustíveis e Lubrificantes" -> "6226"
         [] c = "Material de Escritório" -> "6224"
         [] c \in {"Alimentação e Bebidas", "Alojamento e Hotelaria",
                   "Transportes e Deslocações"} -> "6227"
         [] c = "Publicidade e Marketing" -> "625"
         [] c = "Seguros" -> "6229"
         [] c = "Contabilidade e Consultoria" -> "6233"
         [] c = "Serviços Jurídicos" -> "6232"
         [] c = "Manutenção e Reparação" -> "624"
         [] c = "Rendas e Alugueres" -> "6299"
         [] OTHER -> "628"]

\* a factor table whose default for a category outside _SNC_MAP is 0.0
IVA_FACTOR_unknown_zero(cat) ==
    IF cat \in {"Alimentação e Bebidas", "Alojamento e Hotelaria"} THEN 0
    ELSE IF cat = "Combustíveis e Lubrificantes" THEN 5
    ELSE IF cat \in DOMAIN SNC_MAP THEN 10
    ELSE 0

\* _IVA_FACTOR.get(cat, 1.0), in tenths
IVA_FACTOR(cat) ==
    IF cat \in {"Alimentação e Bebidas", "Alojamento e Hotelaria"} THEN 0
    ELSE IF cat = "Combustíveis e Lubrificantes" THEN 5
    ELSE 10

REPRESENTACAO_CATS == {"Alimentação e Bebidas", "Alojamento e Hotelaria"}

\* _TAXA_TRIB_AUTONOMA = 0.10, in percent
TAXA_TRIB_AUTONOMA == 10

\* _TAXA_TA_KM = 0.05, in percent
TAXA_TA_KM == 5

\* KM_RATE = 0.40 euro per km, in money units per tenth of a km
KM_RATE == 400

\* a category read as it is stored, blank included
cat_of_as_stored(row) == row.tipo_despesa

\* row.get('tipo_despesa') or 'Outros'
cat_of(row) == IF row.tipo_despesa = "" THEN "Outros" ELSE row.tipo_despesa

\* _despesa_key: data_fatura|fornecedor|numero_fatura
despesa_key(row) ==
    row.data_fatura \o <<"|">> \o row.fornecedor \o <<"|">> \o row.numero_fatura

\* an enrichment that rounds the deductible VAT only
enrich_row_unrounded(row) ==
    LET cat       == cat_of(row)
        iva_ded   == Round2((to_float(row.iva) * IVA_FACTOR(cat)) \div 10)
        iva_nao   == to_float(row.iva) - iva_ded
        custo_irc == to_float(row.base_tributavel) + iva_nao
    IN  [row                     |-> row,
         key                     |-> despesa_key(row),
         snc_conta               |-> GetOr(SNC_MAP, cat, "628"),
         iva_fator               |-> IVA_FACTOR(cat),
         iva_deducivel_calc      |-> iva_ded,
         iva_nao_deducivel       |-> iva_nao,
         custo_irc               |-> custo_irc,
         is_representacao        |-> cat \in REPRESENTACAO_CATS,
         tributacao_autonoma_val |->
             IF cat \in REPRESENTACAO_CATS
             THEN (custo_irc * TAXA_TRIB_AUTONOMA) \div 100
             ELSE 0]

\* the fiscal values _enrich_despesas adds to one row
enrich_row(row) ==
    LET cat       == cat_of(row)
        fator     == IVA_FACTOR(cat)
        iva       == to_float(row.iva)
        base      == to_float(row.base_tributavel)
        iva_ded   == Round2((iva * fator) \div 10)
        iva_nao   == Round2(iva - iva_ded)
        custo_irc == Round2(base + iva_nao)
        is_rep    == cat \in REPRESENTACAO_CATS
    IN  [row                     |-> row,
         key                     |-> despesa_key(row),
         snc_conta               |-> GetOr(SNC_MAP, cat, "628"),
         iva_fator               |-> fator,
         iva_deducivel_calc      |-> iva_ded,
         iva_nao_deducivel       |-> iva_nao,
         custo_irc               |-> custo_irc,
         is_representacao        |-> is_rep,
         tributacao_autonoma_val |->
             IF is_rep
             THEN RoundDiv(custo_irc * TAXA_TRIB_AUTONOMA, 100 * Cent) * Cent
             ELSE 0]

\* _enrich_despesas
enrich_despesas(rows) == [i \in 1..Len(rows) |-> enrich_row(rows[i])]

(***************************************************************************)
(* Tax configuration and tax estimator                                      *)
(***************************************************************************)

\* _CONTAB_DEFAULTS: the rates in tenths of a percent (23, 16, 21, 1.5), the
\* threshold of 50000 euro in money units, and the three sheet access keys
\* (their texts shortened to one character)
CONTAB_DEFAULTS ==
    [service_account_path |-> Str(<<"/">>),
     sheet_id             |-> Str(<<"1">>),
     sheet_name           |-> Str(<<"F">>),
     taxa_iva_rendimentos |-> Num(230),
     irc_taxa_reduzida    |-> Num(160),
     irc_limiar_reduzida  |-> Num(50000 * Unit),
     irc_taxa_normal      |-> Num(210),
     taxa_derrama         |-> Num(15)]

\* _get_contab_config: the defaults overlaid with the stored file
get_contab_config(file) ==
    [k \in DOMAIN CONTAB_DEFAULTS \cup DOMAIN file |->
        IF k \in DOMAIN file THEN file[k] ELSE CONTAB_DEFAULTS[k]]

Min(a, b) == IF a <= b THEN a ELSE b
Max(a, b) == IF a >= b THEN a ELSE b

\* an estimate whose surtax is taken on the reduced-rate part only
calc_irc_surtax_on_reduced(resultado, cfg) ==
    IF resultado <= 0 THEN [irc |-> 0, derrama |-> 0, subtotal |-> 0]
    ELSE
    LET limiar    == cfg.irc_limiar_reduzida.v
        base_red  == IF resultado < limiar THEN resultado ELSE limiar
        base_norm == IF resultado > limiar THEN resultado - limiar ELSE 0
        irc       == RoundDiv(base_red * cfg.irc_taxa_reduzida.v
                              + base_norm * cfg.irc_taxa_normal.v,
                              1000 * Cent) * Cent
        derrama   == RoundDiv(base_red * cfg.taxa_derrama.v, 1000 * Cent) * Cent
    IN  [irc |-> irc, derrama |-> derrama, subtotal |-> irc + derrama]

\* _calc_irc(resultado, cfg) for a numeric cfg: (irc, derrama, subtotal)
calc_irc(resultado, cfg) ==
    IF resultado <= 0 THEN [irc |-> 0, derrama |-> 0, subtotal |-> 0]
    ELSE
    LET limiar    == cfg.irc_limiar_reduzida.v
        base_red  == Min(resultado, limiar)
        base_norm == Max(0, resultado - limiar)
        irc       == RoundDiv(base_red * cfg.irc_taxa_reduzida.v
                              + base_norm * cfg.irc_taxa_normal.v,
                              1000 * Cent) * Cent
        derrama   == RoundDiv(resultado * cfg.taxa_derrama.v, 1000 * Cent) * Cent
    IN  [irc |-> irc, derrama |-> derrama, subtotal |-> Round2(irc + derrama)]

(***************************************************************************)
(* Monthly aggregator                                                       *)
(***************************************************************************)

\* (y1, m1) < (y2, m2), as Python compares tuples
KeyLess(a, b) == a[1] < b[1] \/ (a[1] = b[1] /\ a[2] < b[2])

\* the keys in descending order
RECURSIVE keys_descending(_)
keys_descending(S) ==
    IF S = {} THEN <<>>
    ELSE LET hi == CHOOSE k \in S : \A j \in S : j = k \/ KeyLess(j, k)
         IN  <<hi>> \o keys_descending(S \ {hi})

\* sorted(keys)
RECURSIVE sorted_keys(_)
sorted_keys(S) ==
    IF S = {} THEN <<>>
    ELSE LET lo == CHOOSE k \in S : \A j \in S : j = k \/ KeyLess(k, j)
         IN  <<lo>> \o sorted_keys(S \ {lo})

\* the (year, month) key of a concert
concert_key(c) == <<c.year, c.month>>

\* a loop over the concerts that skips none
concert_counts_all(c) == TRUE

\* whether the loop over the concerts reaches the sums for c: a concert
\* with a substitute is skipped whole
concert_counts(c) == c.substituto = <<>>

\* _to_float(c.get('cachet') or 0)
concert_cachet(c) == IF c.cachet = <<>> THEN 0 ELSE to_float(Str(c.cachet))

\* a distance that is never read
concert_km_unread(c) == 0

\* _to_float(c.get('km') or 0), in tenths of a km
concert_km(c) == to_float(c.km)

\* round(cachet * taxa_iva, 4)
concert_iva(c, taxa_iva) == RoundDiv(concert_cachet(c) * taxa_iva, 1000)

\* a key that puts a row whose date does not parse into the bucket (0, 0)
row_key_sentinel(row) ==
    LET dt == strptime_ymd(row.data_fatura)
    IN  [ok |-> TRUE, key |-> <<dt.year, dt.month>>]

\* the key of an expense row, ok = FALSE when strptime raises
row_key(row) ==
    LET dt == strptime_ymd(row.data_fatura)
    IN  [ok |-> dt.ok, key |-> <<dt.year, dt.month>>]

\* a row added to its month with the amounts the enricher publishes
row_fiscal_published(row) ==
    LET e     == enrich_row(row)
        fator == IVA_FACTOR(cat_of(row))
    IN  [cat        |-> cat_of(row),
         base       |-> e.custo_irc,
         iva        |-> e.iva_deducivel_calc,
         iva_6      |-> (to_float(row.iva_6) * fator) \div 10,
         iva_13     |-> (to_float(row.iva_13) * fator) \div 10,
         iva_23     |-> (to_float(row.iva_23) * fator) \div 10,
         trib_autonoma |-> e.tributacao_autonoma_val,
         gastos_rep |-> IF e.is_representacao THEN e.custo_irc ELSE 0]

\* what the aggregator adds to the month of one row, at full precision
row_fiscal(row) ==
    LET cat       == cat_of(row)
        fator     == IVA_FACTOR(cat)
        iva       == to_float(row.iva)
        iva_ded   == (iva * fator) \div 10
        custo_irc == to_float(row.base_tributavel) + (iva - iva_ded)
        is_rep    == cat \in REPRESENTACAO_CATS
    IN  [cat        |-> cat,
         base       |-> custo_irc,
         iva        |-> iva_ded,
         iva_6      |-> (to_float(row.iva_6) * fator) \div 10,
         iva_13     |-> (to_float(row.iva_13) * fator) \div 10,
         iva_23     |-> (to_float(row.iva_23) * fator) \div 10,
         trib_autonoma |-> IF is_rep
                           THEN (custo_irc * TAXA_TRIB_AUTONOMA) \div 100
                           ELSE 0,
         gastos_rep |-> IF is_rep THEN custo_irc ELSE 0]

\* rend_mes: the months with a counted concert of positive fee
rend_keys(concerts) ==
    {concert_key(concerts[i]) : i \in {j \in 1..Len(concerts) :
        concert_counts(concerts[j]) /\ concert_cachet(concerts[j]) > 0}}

\* km_mes: the months with a counted concert of positive distance
km_keys(concerts) ==
    {concert_key(concerts[i]) : i \in {j \in 1..Len(concerts) :
        concert_counts(concerts[j]) /\ concert_km(concerts[j]) > 0}}

\* a union of keys that leaves the months of the expense rows out
gast_keys_left_out(rows) == {}

\* gast_mes: the months of the rows whose date parses
gast_keys(rows) ==
    {row_key(rows[i]).key : i \in {j \in 1..Len(rows) : row_key(rows[j]).ok}}

\* all_keys = sorted(set(rend_mes) | set(gast_mes) | set(km_mes))
all_keys(concerts, rows) ==
    sorted_keys(rend_keys(concerts) \cup gast_keys(rows) \cup km_keys(concerts))

\* the rows accumulated into month key, in store order, as row_fiscal records
month_rows(rows, key) ==
    LET pick == SelectSeq(rows, LAMBDA r : row_key(r).ok /\ row_key(r).key = key)
    IN  [i \in 1..Len(pick) |-> row_fiscal(pick[i])]

\* the concerts accumulated into month key, in list order
month_concerts(concerts, key) ==
    SelectSeq(concerts, LAMBDA c : concert_counts(c) /\ concert_key(c) = key)

\* gast_mes[key]['por_categoria']: category -> accumulated cost
por_categoria_of(frs) ==
    [cat \in {frs[i].cat : i \in 1..Len(frs)} |->
        Sum([i \in 1..Len(frs) |-> IF frs[i].cat = cat THEN frs[i].base ELSE 0])]

\* a balance of deductible minus charged VAT
iva_saldo_reversed(iva_liq, iva_ded) == Round2(iva_ded - iva_liq)

\* the emitted VAT balance of a month
iva_saldo_of(iva_liq, iva_ded) == Round2(iva_liq - iva_ded)

\* rend_mes[key], km_mes[key] and gast_mes[key] after the two loops: the
\* sums of one month at full precision (a fee or a distance that is not
\* positive adds nothing)
month_sums(key, cs, frs, taxa_iva) ==
    [key       |-> key,
     rend_base |-> Sum([i \in 1..Len(cs) |-> Max(0, concert_cachet(cs[i]))]),
     rend_iva  |-> Sum([i \in 1..Len(cs) |->
                      IF concert_cachet(cs[i]) > 0
                      THEN concert_iva(cs[i], taxa_iva) ELSE 0]),
     km        |-> Sum([i \in 1..Len(cs) |-> Max(0, concert_km(cs[i])) * KM_RATE]),
     base      |-> Sum([i \in 1..Len(frs) |-> frs[i].base]),
     iva       |-> Sum([i \in 1..Len(frs) |-> frs[i].iva]),
     iva_6     |-> Sum([i \in 1..Len(frs) |-> frs[i].iva_6]),
     iva_13    |-> Sum([i \in 1..Len(frs) |-> frs[i].iva_13]),
     iva_23    |-> Sum([i \in 1..Len(frs) |-> frs[i].iva_23]),
     trib_autonoma |-> Sum([i \in 1..Len(frs) |-> frs[i].trib_autonoma]),
     gastos_rep    |-> Sum([i \in 1..Len(frs) |-> frs[i].gastos_rep]),
     por_categoria |-> por_categoria_of(frs)]

\* the fields of a month that are rounded sums: r_base, g_base, km_val,
\* iva_liq, iva_ded, ta_rep
month_rounded(m) ==
    [m EXCEPT !.rend_base = Round2(m.rend_base),
              !.rend_iva  = Round2(m.rend_iva),
              !.km        = Round2(m.km),
              !.base      = Round2(m.base),
              !.iva       = Round2(m.iva),
              !.trib_autonoma = Round2(m.trib_autonoma)]

\* the result dict of a month from its rounded sums r, with g_total,
\* resultado, ta_km and trib_auto computed by the callers below
month_result(r, g_total, resultado, ta_km, trib_auto, tax) ==
    [year |-> r.key[1], month |-> r.key[2],
     rendimentos          |-> r.rend_base,
     iva_liquidado        |-> r.rend_iva,
     gastos_despesas      |-> r.base,
     gastos_km            |-> r.km,
     gastos_total         |-> g_total,
     iva_deducivel        |-> r.iva,
     iva_deducivel_6      |-> Round2(r.iva_6),
     iva_deducivel_13     |-> Round2(r.iva_13),
     iva_deducivel_23     |-> Round2(r.iva_23),
     iva_saldo            |-> iva_saldo_of(r.rend_iva, r.iva),
     resultado            |-> resultado,
     irc_estimado         |-> tax.irc,
     derrama_estimada     |-> tax.derrama,
     irc_subtotal         |-> Round2(tax.subtotal),
     tributacao_autonoma  |-> trib_auto,
     ta_representacao     |-> r.trib_autonoma,
     ta_km                |-> ta_km,
     gastos_representacao |-> Round2(r.gastos_rep),
     irc_total            |-> Round2(tax.subtotal + trib_auto),
     por_categoria        |-> r.por_categoria]

\* a month whose total autonomous tax leaves the mileage part out
month_taxed_without_km(r, g_total, resultado, ta_km, cfg) ==
    month_result(r, g_total, resultado, ta_km,
                 Round2(r.trib_autonoma), calc_irc(resultado, cfg))

\* tax = _calc_irc(resultado, cfg)
month_taxed(r, g_total, resultado, ta_km, cfg) ==
    month_result(r, g_total, resultado, ta_km,
                 Round2(r.trib_autonoma + ta_km), calc_irc(resultado, cfg))

\* resultado = round(r_base - g_total, 2); ta_km = round(km_val * 0.05, 2)
month_derived(r, g_total, cfg) ==
    month_taxed(r, g_total, Round2(r.rend_base - g_total),
                RoundDiv(r.km * TAXA_TA_KM, 100 * Cent) * Cent, cfg)

\* the summary of one month; g_total = round(g_base + km_val, 2)
month_of_sums(r, cfg) == month_derived(r, Round2(r.base + r.km), cfg)

month_summary(key, concerts, rows, cfg) ==
    month_of_sums(
        month_rounded(month_sums(key, month_concerts(concerts, key),
                                 month_rows(rows, key),
                                 cfg.taxa_iva_rendimentos.v)),
        cfg)

\* whether a config value is a number (value / 100 raises TypeError otherwise)
IsNumber(v) == v.t = "num"

\* _build_contabilidade over one read of each store: the summaries, one per
\* key of all_keys, in that order
months_of(keys, concerts, rows, cfg) ==
    [i \in 1..Len(keys) |-> month_summary(keys[i], concerts, rows, cfg)]

\* the summaries of the normalized concerts and the stored rows
summaries_of(cfg, concerts, rows) ==
    months_of(all_keys(concerts, rows), concerts, rows, cfg)

build_contabilidade(file, baseS, cdata, ags, dists, rows) ==
    summaries_of(get_contab_config(file),
                 build_concerts_from_local(baseS, cdata, ags, dists), rows)

(***************************************************************************)
(* The stores (the JSON files under data/) and the last response            *)
(***************************************************************************)

VARIABLES
    base,               \* concerts_base.json 'events': id -> start, summary,
                        \* in file order
    concert_data,       \* concert_data.json: id -> field -> text
    agencies,           \* agencies.json 'agencies'
    distances,          \* distances_cache.json / _distances_mem: venue -> km
    deleted,            \* deleted_events.json
    despesas,           \* despesas.json 'rows'
    despesas_overrides, \* despesas_overrides.json: key -> category
    contab_config,      \* config_contab.json
    response,           \* what the last request returned
    uuids,              \* how many uuid4() values were drawn
    nops,               \* how many requests wrote a store
    last_update,        \* history: id -> field -> the value of the last
                        \* update_concert of an event that was not deleted since
    inflight,           \* the local variables of a _build_contabilidade call
                        \* that runs while other requests are served
    writers             \* the local variables of the update_concert calls
                        \* that run in threads of their own

stores == <<base, concert_data, agencies, distances, deleted, despesas,
            despesas_overrides, contab_config>>

vars == <<base, concert_data, agencies, distances, deleted, despesas,
          despesas_overrides, contab_config, response, uuids, nops,
          last_update, inflight, writers>>

\* no _build_contabilidade call is running
Idle ==
    [pc |-> "idle", cfg |-> <<>>, base |-> <<>>, cdata |-> <<>>, ags |-> <<>>,
     kms |-> <<>>, rows |-> <<>>, seen |-> {}]

\* the bounds of the model: store-writing requests of one run, uuid4() draws,
\* rows of one sheet read
MaxOps == 3
MaxUuids == 1
MaxRows == 2

\* update_concert requests in flight together
MaxWriters == 2

\* write requests served while one _build_contabilidade call runs
MaxInterleaved == 1

\* events of a base store that is sorted
MaxEvents == 3

(***************************************************************************)
(* The inputs the requests are drawn from                                   *)
(***************************************************************************)

ID_G1 == <<"g", "1">>
CalIds == {ID_G1}

LOCAL_PREFIX == <<"l", "o", "c", "a", "l", "_">>

\* 'A | e, v SUB s' and 'A|e,v'
TitleSub   == <<"A", " ", "|", " ", "e", ",", " ", "v", " ", "S", "U", "B", " ", "s">>
TitlePlain == <<"A", "|", "e", ",", "v">>

\* '2024-01-10' and '2024-02-05T20:00:00+01:00'
StartJan  == <<"2", "0", "2", "4", "-", "0", "1", "-", "1", "0">>
StartFeb  == <<"2", "0", "2", "4", "-", "0", "2", "-", "0", "5", "T",
               "2", "0", ":", "0", "0", ":", "0", "0", "+", "0", "1", ":", "0", "0">>

\* what the calendar can hold for an event
CalPool ==
    {[start |-> StartJan, summary |-> TitleSub],
     [start |-> StartFeb, summary |-> TitlePlain]}

\* the items of one events().list() answer: no event, or one per calendar id
CalAnswers ==
    {<<>>} \cup {<<[id |-> i, start |-> e.start, summary |-> e.summary]>> :
                    i \in CalIds, e \in CalPool}

TextFields == {"artista", "evento", "local", "substituto"}

Fields == TextFields \cup {"cachet"}

\* the request values of update_concert per field: empty, or a padded text
UpdateValues(field) ==
    CASE field = "artista"    -> {<<>>, <<" ", "B", " ">>}
      [] field = "evento"     -> {<<>>, <<"b">>}
      [] field = "local"      -> {<<>>, <<"w">>}
      [] field = "substituto" -> {<<>>, <<"s">>}
      [] field = "cachet"     -> {<<>>, <<"5", "0">>}
      [] OTHER                -> {<<"b">>}

\* the bodies of add_concert: a January concert of artist A at venue v with
\* fee 80,5, a concert whose date is no date, and a body without date
AddBodies ==
    {[date |-> <<"2", "0", "2", "4", "-", "0", "1", "-", "2", "0">>,
      time |-> <<>>, artista |-> <<"A">>, evento |-> <<>>, local |-> <<"v">>,
      substituto |-> <<>>, cachet |-> <<"8", "0", ",", "5">>],
     [date |-> <<"x">>, time |-> <<"2", "0", ":", "0", "0">>,
      artista |-> <<>>, evento |-> <<>>, local |-> <<>>,
      substituto |-> <<>>, cachet |-> <<"5", "0">>],
     [date |-> <<" ">>, time |-> <<>>, artista |-> <<>>, evento |-> <<>>,
      local |-> <<>>, substituto |-> <<>>, cachet |-> <<>>]}

\* what the routing service answers in one request: venue -> km (tenths),
\* a venue outside the domain is one it does not resolve
NetAnswers ==
    {[v \in {} |-> 0], [v \in {<<"v">>, <<"w">>} |-> 1000]}

\* the names and base fees of the agency requests
ArtistNames == {<<"A">>}
BaseFees == {<<>>, <<"1", "0", "0">>}

\* the rows of the expense sheet (get_all_records, UNFORMATTED_VALUE):
\* amounts in cents, a date as serial number or as text
SheetRow(date, num, cat, amount, vat) ==
    [data |-> date, fornecedor |-> <<"F">>, numero |-> num, tipo |-> cat,
     base |-> amount, iva |-> vat, iva_6 |-> Num(0), iva_13 |-> Num(0),
     iva_23 |-> vat]

SheetPool ==
    {\* 15/01/2024 as serial number: a meal, base 100.00, VAT 23.00
     SheetRow(Num(45306), <<"1">>, "Alimentação e Bebidas",
              Num(100 * Unit), Num(23 * Unit)),
     \* fuel with an odd number of cents of VAT: base 10.00, VAT 2.31
     SheetRow(Str(<<"2", "0", "2", "4", "-", "0", "1", "-", "1", "5">>),
              <<"2">>, "Combustíveis e Lubrificantes",
              Num(10 * Unit), Num(231 * Cent)),
     \* 01/02/2024: a blank category and an amount typed as text '12,50'
     SheetRow(Str(<<"0", "1", "/", "0", "2", "/", "2", "0", "2", "4">>),
              <<"4">>, "", Str(<<"1", "2", ",", "5", "0">>), Num(288 * Cent)),
     \* a category outside the fixed set
     SheetRow(Num(45306), <<"5">>, "Xpto", Num(20 * Unit), Num(460 * Cent)),
     \* a date that is no date
     SheetRow(Str(<<"x">>), <<"6">>, "Alojamento e Hotelaria",
              Num(50 * Unit), Num(3 * Unit))}

\* the sequences of up to n different elements of S
RECURSIVE SeqsUpTo(_, _)
SeqsUpTo(S, n) ==
    IF n = 0 THEN {<<>>}
    ELSE LET shorter == SeqsUpTo(S, n - 1)
         IN  shorter \cup
             {Append(q, e) : q \in {t \in shorter : Len(t) = n - 1}, e \in S}

Distinct(q) == \A i, j \in 1..Len(q) : i # j => q[i] # q[j]

Sheets == {q \in SeqsUpTo(SheetPool, MaxRows) : Distinct(q)}

\* the key and categoria values of set_categoria requests: no key, the key
\* of the meal row (padded) and the key of the row of 01/02/2024
KeyInputs ==
    {<<>>,
     <<" ", "2", "0", "2", "4", "-", "0", "1", "-", "1", "5", "|", "F", "|", "1">>,
     <<"2", "0", "2", "4", "-", "0", "2", "-", "0", "1", "|", "F", "|", "4">>}

\* a categoria text is its name between optional blanks
CategoriaInputs ==
    {<<" ">>, <<"Xpto">>, <<" ", "Combustíveis e Lubrificantes", " ">>,
     <<"Alojamento e Hotelaria">>}

\* the bodies of PUT contab_config: 6 % revenue VAT; a revenue VAT of null; a
\* threshold of 40 euro and a normal rate of 25,5 %; a surtax that is no
\* number; an unknown key
ConfigBodies ==
    {[k \in {"taxa_iva_rendimentos"} |-> Num(60)],
     [k \in {"taxa_iva_rendimentos"} |-> Null],
     [k \in {"irc_limiar_reduzida", "irc_taxa_normal"} |->
        IF k = "irc_limiar_reduzida" THEN Num(40 * Unit) ELSE Num(255)],
     [k \in {"taxa_derrama"} |-> Str(<<"x">>)],
     [k \in {"outra"} |-> Num(1)]}

(***************************************************************************)
(* The request handlers                                                     *)
(***************************************************************************)

Resp(op, ok, data) == [op |-> op, ok |-> ok, data |-> data]

Init ==
    /\ base = <<>>
    /\ concert_data = EmptyDict
    /\ agencies = <<>>
    /\ distances = EmptyDict
    /\ deleted = <<>>
    /\ despesas = <<>>
    /\ despesas_overrides = EmptyDict
    /\ contab_config = EmptyDict
    /\ response = Resp("none", TRUE, <<>>)
    /\ uuids = 0
    /\ nops = 0
    /\ last_update = EmptyDict
    /\ inflight = Idle
    /\ writers = <<>>

\* the ids of a sequence of records with an id
IdsOf(q) == {q[i].id : i \in 1..Len(q)}

InSeq(q, e) == \E i \in 1..Len(q) : q[i] = e

\* the distance cache after driving_distance_km was called for each venue of
\* wanted: a cached venue is answered from the cache, another one is looked
\* up and cached when the routing service resolves it
warm_distances(dists, wanted, net) ==
    [v \in DOMAIN dists \cup ((wanted \ {<<>>}) \cap DOMAIN net) |->
        IF v \in DOMAIN dists THEN dists[v] ELSE net[v]]

\* a loop over the calendar items that does not look at the deleted ids
RECURSIVE sync_items_repopulating(_, _, _)
sync_items_repopulating(existing, items, deleted_ids) ==
    IF items = <<>> THEN existing
    ELSE LET it   == Head(items)
             next == IF it.id \notin IdsOf(existing)
                     THEN Append(existing, it)
                     ELSE [i \in 1..Len(existing) |->
                             IF existing[i].id = it.id THEN it ELSE existing[i]]
         IN  sync_items_repopulating(next, Tail(items), deleted_ids)

\* the loop of api_sync over the calendar items: a deleted id is skipped, a
\* new id is appended, a known id gets the start and title of the calendar
RECURSIVE sync_items(_, _, _)
sync_items(existing, items, deleted_ids) ==
    IF items = <<>> THEN existing
    ELSE LET it   == Head(items)
             next == IF InSeq(deleted_ids, it.id) THEN existing
                     ELSE IF it.id \notin IdsOf(existing)
                          THEN Append(existing, it)
                          ELSE [i \in 1..Len(existing) |->
                                  IF existing[i].id = it.id THEN it
                                  ELSE existing[i]]
         IN  sync_items(next, Tail(items), deleted_ids)

\* the venue api_sync warms the cache for: ov.get('local', lo_p)
venue_of(ev, cdata) ==
    override_or(GetOr(cdata, ev.id, EmptyDict), "local",
                parse_event_title(ev.summary).local)

\* POST /api/sync (the calendar is authorized and chosen)
api_sync(items, net) ==
    /\ nops < MaxOps
    /\ LET existing == sync_items(base, items, deleted)
       IN  /\ base' = existing
           /\ distances' = warm_distances(distances,
                  {venue_of(existing[i], concert_data) : i \in 1..Len(existing)},
                  net)
    /\ response' = Resp("sync", TRUE, <<>>)
    /\ nops' = nops + 1
    /\ UNCHANGED <<concert_data, agencies, deleted, despesas,
                   despesas_overrides, contab_config, uuids, last_update, inflight, writers>>

\* POST /api/update_concert
update_concert(event_id, field, raw, net) ==
    LET value == Strip(raw)
    IN  IF field \notin Fields
        THEN /\ response' = Resp("update_concert", FALSE, <<>>)
             /\ UNCHANGED <<stores, uuids, nops, last_update, inflight, writers>>
        ELSE /\ nops < MaxOps
             /\ concert_data' =
                    Put(concert_data, event_id,
                        Put(GetOr(concert_data, event_id, EmptyDict), field, value))
             /\ distances' = IF field = "local"
                             THEN warm_distances(distances, {value}, net)
                             ELSE distances
             /\ response' = Resp("update_concert", TRUE, <<>>)
             /\ nops' = nops + 1
             /\ last_update' =
                    Put(last_update, event_id,
                        Put(GetOr(last_update, event_id, EmptyDict), field, value))
             /\ UNCHANGED <<inflight, writers>>
             /\ UNCHANGED <<base, agencies, deleted, despesas,
                            despesas_overrides, contab_config, uuids>>

\* start_iso of add_concert: f'{date_str}T{time_str}:00' if time_str else
\* date_str
start_iso_of(body) ==
    LET date_str == Strip(body.date)
        time_str == Strip(body.time)
    IN  IF time_str # <<>>
        THEN date_str \o <<"T">> \o time_str \o <<":", "0", "0">>
        ELSE date_str

\* the overrides add_concert stores: the five fields of the body, stripped
overrides_of(body) == [f \in Fields |-> Strip(body[f])]

\* f'local_{uuid.uuid4().hex[:12]}', the n-th value drawn
local_id(n) == LOCAL_PREFIX \o IntText(n)

\* POST /api/add_concert
api_add_concert(body, net) ==
    LET date_str  == Strip(body.date)
        start_iso == start_iso_of(body)
        event_id  == local_id(uuids + 1)
        overrides == overrides_of(body)
    IN  IF date_str = <<>>
        THEN /\ response' = Resp("add_concert", FALSE, <<>>)
             /\ UNCHANGED <<stores, uuids, nops, last_update, inflight, writers>>
        ELSE /\ nops < MaxOps
             /\ uuids < MaxUuids
             /\ uuids' = uuids + 1
             /\ base' = Append(base, [id |-> event_id, start |-> start_iso,
                                      summary |-> <<>>])
             /\ concert_data' = Put(concert_data, event_id, overrides)
             /\ distances' = warm_distances(distances, {overrides["local"]}, net)
             /\ response' = Resp("add_concert", TRUE, <<>>)
             /\ nops' = nops + 1
             /\ UNCHANGED <<agencies, deleted, despesas, despesas_overrides,
                            contab_config, last_update, inflight, writers>>

\* event_id.startswith('local_')
is_local_id(event_id) ==
    Len(event_id) >= Len(LOCAL_PREFIX)
    /\ SubSeq(event_id, 1, Len(LOCAL_PREFIX)) = LOCAL_PREFIX

\* POST /api/delete_concert
api_delete_concert(raw) ==
    LET event_id == Strip(raw)
    IN  IF event_id = <<>>
        THEN /\ response' = Resp("delete_concert", FALSE, <<>>)
             /\ UNCHANGED <<stores, uuids, nops, last_update, inflight, writers>>
        ELSE /\ nops < MaxOps
             /\ base' = SelectSeq(base, LAMBDA e : e.id # event_id)
             /\ concert_data' = Pop(concert_data, event_id)
             /\ deleted' = IF ~is_local_id(event_id) /\ ~InSeq(deleted, event_id)
                           THEN Append(deleted, event_id)
                           ELSE deleted
             /\ response' = Resp("delete_concert", TRUE, <<>>)
             /\ nops' = nops + 1
             /\ last_update' = Pop(last_update, event_id)
             /\ UNCHANGED <<inflight, writers>>
             /\ UNCHANGED <<agencies, distances, despesas, despesas_overrides,
                            contab_config, uuids>>

\* POST /api/agencias
api_create_agencia(nome) ==
    IF Strip(nome) = <<>>
    THEN /\ response' = Resp("create_agencia", FALSE, <<>>)
         /\ UNCHANGED <<stores, uuids, nops, last_update, inflight, writers>>
    ELSE /\ nops < MaxOps
         /\ uuids < MaxUuids
         /\ uuids' = uuids + 1
         /\ agencies' = Append(agencies, [id |-> IntText(uuids + 1),
                                          nome |-> Strip(nome),
                                          artistas |-> <<>>])
         /\ response' = Resp("create_agencia", TRUE, <<>>)
         /\ nops' = nops + 1
         /\ UNCHANGED <<base, concert_data, distances, deleted, despesas,
                        despesas_overrides, contab_config, last_update, inflight, writers>>

\* the artistas of agency agency_id
artistas_of(ags, agency_id) ==
    (CHOOSE ag \in {ags[i] : i \in 1..Len(ags)} : ag.id = agency_id).artistas

\* the agencies with the artistas of agency agency_id replaced
with_artistas(ags, agency_id, artistas) ==
    [i \in 1..Len(ags) |->
        IF ags[i].id = agency_id
        THEN [ags[i] EXCEPT !.artistas = artistas]
        ELSE ags[i]]

\* POST /api/agencias/<agency_id>/artistas
api_add_artista(agency_id, raw_nome, raw_fee) ==
    LET nome == Strip(raw_nome)
        fee  == Strip(raw_fee)
        as   == artistas_of(agencies, agency_id)
        add  == IF \E i \in 1..Len(as) : as[i].nome = nome THEN as
                ELSE Append(as, [nome |-> nome, cachet_base |-> fee])
    IN  IF nome = <<>> \/ agency_id \notin IdsOf(agencies)
        THEN /\ response' = Resp("add_artista", FALSE, <<>>)
             /\ UNCHANGED <<stores, uuids, nops, last_update, inflight, writers>>
        ELSE /\ nops < MaxOps
             /\ agencies' = with_artistas(agencies, agency_id, add)
             /\ response' = Resp("add_artista", TRUE, <<>>)
             /\ nops' = nops + 1
             /\ UNCHANGED <<base, concert_data, distances, deleted, despesas,
                            despesas_overrides, contab_config, uuids,
                            last_update, inflight, writers>>

\* PUT /api/agencias/<agency_id>/artistas/cachet
api_update_artista_cachet(agency_id, raw_nome, raw_fee) ==
    LET nome == Strip(raw_nome)
        fee  == Strip(raw_fee)
        as   == artistas_of(agencies, agency_id)
        set  == [i \in 1..Len(as) |->
                   IF as[i].nome = nome
                   THEN [as[i] EXCEPT !.cachet_base = fee]
                   ELSE as[i]]
    IN  IF agency_id \notin IdsOf(agencies)
        THEN /\ response' = Resp("update_artista_cachet", FALSE, <<>>)
             /\ UNCHANGED <<stores, uuids, nops, last_update, inflight, writers>>
        ELSE /\ nops < MaxOps
             /\ agencies' = with_artistas(agencies, agency_id, set)
             /\ response' = Resp("update_artista_cachet", TRUE, <<>>)
             /\ nops' = nops + 1
             /\ UNCHANGED <<base, concert_data, distances, deleted, despesas,
                            despesas_overrides, contab_config, uuids,
                            last_update, inflight, writers>>

\* one row of the sheet as api_sync_despesas stores it (the columns the
\* engine never reads are left out)
normalized_row(r) ==
    [data_fatura     |-> sheets_date(r.data),
     fornecedor      |-> r.fornecedor,
     numero_fatura   |-> r.numero,
     tipo_despesa    |-> r.tipo,
     base_tributavel |-> Num(to_float(r.base)),
     iva             |-> Num(to_float(r.iva)),
     iva_6           |-> Num(to_float(r.iva_6)),
     iva_13          |-> Num(to_float(r.iva_13)),
     iva_23          |-> Num(to_float(r.iva_23))]

\* the rows api_sync_despesas stores for a sheet
normalized_rows(sheet) == [i \in 1..Len(sheet) |-> normalized_row(sheet[i])]

\* POST /api/sync_despesas (the service account file exists)
api_sync_despesas(sheet) ==
    /\ nops < MaxOps
    /\ despesas' = normalized_rows(sheet)
    /\ response' = Resp("sync_despesas", TRUE, <<>>)
    /\ nops' = nops + 1
    /\ UNCHANGED <<base, concert_data, agencies, distances, deleted,
                   despesas_overrides, contab_config, uuids, last_update, inflight, writers>>

\* a check that accepts every categoria that is not blank
categoria_valid_any(categoria) == Len(categoria) = 1

\* whether set_categoria accepts a stripped categoria text: it is the name of
\* a category of _SNC_MAP
categoria_valid(categoria) ==
    Len(categoria) = 1 /\ categoria[1] \in DOMAIN SNC_MAP

\* POST /api/despesas/set_categoria
api_despesas_set_categoria(raw_key, raw_categoria) ==
    LET key       == Strip(raw_key)
        categoria == Strip(raw_categoria)
    IN  IF key = <<>> \/ categoria = <<>> \/ ~categoria_valid(categoria)
        THEN /\ response' = Resp("set_categoria", FALSE, <<>>)
             /\ UNCHANGED <<stores, uuids, nops, last_update, inflight, writers>>
        ELSE /\ nops < MaxOps
             /\ despesas_overrides' = Put(despesas_overrides, key, categoria[1])
             /\ response' = Resp("set_categoria", TRUE, <<>>)
             /\ nops' = nops + 1
             /\ UNCHANGED <<base, concert_data, agencies, distances, deleted,
                            despesas, contab_config, uuids, last_update, inflight, writers>>

\* the keys a PUT of the configuration may set
ALLOWED_KEYS ==
    {"taxa_iva_rendimentos", "irc_taxa_reduzida", "irc_limiar_reduzida",
     "irc_taxa_normal", "taxa_derrama", "service_account_path", "sheet_id",
     "sheet_name"}

\* a PUT that keeps the value a key already has in the file
put_config_first_wins(file, body) ==
    LET cfg == get_contab_config(file)
        new == (DOMAIN body \cap ALLOWED_KEYS) \ DOMAIN file
    IN  [k \in DOMAIN cfg \cup new |-> IF k \in new THEN body[k] ELSE cfg[k]]

\* the configuration file after a PUT: the merged configuration with the
\* allowed keys of the body, saved whole
put_config(file, body) ==
    LET cfg == get_contab_config(file)
    IN  [k \in DOMAIN cfg \cup (DOMAIN body \cap ALLOWED_KEYS) |->
            IF k \in DOMAIN body \cap ALLOWED_KEYS THEN body[k] ELSE cfg[k]]

\* PUT /api/contab_config
api_put_contab_config(body) ==
    /\ nops < MaxOps
    /\ contab_config' = put_config(contab_config, body)
    /\ response' = Resp("put_contab_config", TRUE, <<>>)
    /\ nops' = nops + 1
    /\ UNCHANGED <<base, concert_data, agencies, distances, deleted, despesas,
                   despesas_overrides, uuids, last_update, inflight, writers>>

\* GET /api/contab_config
api_get_contab_config ==
    /\ response' = Resp("get_contab_config", TRUE, get_contab_config(contab_config))
    /\ UNCHANGED <<stores, uuids, nops, last_update, inflight, writers>>

\* whether _build_contabilidade ends in a TypeError instead of returning
\* data: the revenue VAT rate is divided first, the other keys in _calc_irc
\* for a month of positive result
contabilidade_raises(cfg, data) ==
    \/ ~IsNumber(cfg.taxa_iva_rendimentos)
    \/ /\ \E i \in 1..Len(data) : data[i].resultado > 0
       /\ \E k \in {"irc_limiar_reduzida", "irc_taxa_reduzida",
                    "irc_taxa_normal", "taxa_derrama"} : ~IsNumber(cfg[k])

\* an answer that is empty when the previous answer was the same summaries
contabilidade_response_alternating(cfg, data) ==
    IF contabilidade_raises(cfg, data)
    THEN Resp("contabilidade", FALSE, <<>>)
    ELSE IF response.op = "contabilidade" /\ response.data = data
         THEN Resp("contabilidade", TRUE, <<>>)
         ELSE Resp("contabilidade", TRUE, data)

\* what GET /api/contabilidade answers
contabilidade_response(cfg, data) ==
    IF contabilidade_raises(cfg, data)
    THEN Resp("contabilidade", FALSE, <<>>)
    ELSE Resp("contabilidade", TRUE, data)

\* GET /api/contabilidade
api_contabilidade ==
    /\ response' = contabilidade_response(
                       get_contab_config(contab_config),
                       build_contabilidade(contab_config, base, concert_data,
                                           agencies, distances, despesas))
    /\ UNCHANGED <<stores, uuids, nops, last_update, inflight, writers>>

\* the rows of despesas_page before enrichment: the category of a row whose
\* key is in the override store is replaced
with_overrides(rows, overrides) ==
    [i \in 1..Len(rows) |->
        IF despesa_key(rows[i]) \in DOMAIN overrides
        THEN [rows[i] EXCEPT !.tipo_despesa = overrides[despesa_key(rows[i])]]
        ELSE rows[i]]

\* GET /despesas: the enriched rows handed to the page
despesas_page ==
    /\ response' = Resp("despesas", TRUE,
                        enrich_despesas(with_overrides(despesas, despesas_overrides)))
    /\ UNCHANGED <<stores, uuids, nops, last_update, inflight, writers>>

\* GET /concerts: the normalized list handed to the page
concerts ==
    /\ response' = Resp("concerts", TRUE,
                        build_concerts_from_local(base, concert_data, agencies,
                                                  distances))
    /\ UNCHANGED <<stores, uuids, nops, last_update, inflight, writers>>

(***************************************************************************)
(* The specifications                                                       *)
(***************************************************************************)

\* the ids the requests name: the calendar ids and the local ids drawn so far
\* (a uuid4 is not known before it is drawn)
RequestIds == CalIds \cup {local_id(k) : k \in 1..uuids}

AgencyIds == {IntText(k) : k \in 0..MaxUuids}

\* the requests that write the revenue stores
RevenueWrites ==
    \/ \E items \in CalAnswers, net \in NetAnswers : api_sync(items, net)
    \/ \E e \in RequestIds, f \in Fields \cup {"id"}, net \in NetAnswers :
          \E v \in UpdateValues(f) : update_concert(e, f, v, net)
    \/ \E b \in AddBodies, net \in NetAnswers : api_add_concert(b, net)
    \/ \E e \in RequestIds \cup {<<>>} : api_delete_concert(<<" ">> \o e)
    \/ \E n \in {<<>>, <<"G">>} : api_create_agencia(n)
    \/ \E a \in AgencyIds, n \in ArtistNames \cup {<<>>}, c \in BaseFees :
          api_add_artista(a, n, c)
    \/ \E a \in AgencyIds, n \in ArtistNames, c \in BaseFees :
          api_update_artista_cachet(a, n, c)

\* the requests that write the expense stores and the configuration
ExpenseWrites ==
    \/ \E sheet \in Sheets : api_sync_despesas(sheet)
    \/ \E k \in KeyInputs, c \in CategoriaInputs : api_despesas_set_categoria(k, c)
    \/ \E b \in ConfigBodies : api_put_contab_config(b)

Next ==
    \/ RevenueWrites
    \/ ExpenseWrites
    \/ api_contabilidade
    \/ despesas_page
    \/ concerts

Spec == Init /\ [][Next]_vars

\* the calendar and agency requests and the pages that show revenue
NextRev ==
    \/ RevenueWrites
    \/ concerts
    \/ api_contabilidade

SpecRev == Init /\ [][NextRev]_vars

\* the expense and configuration requests and the pages that show expenses
NextExp ==
    \/ ExpenseWrites
    \/ despesas_page
    \/ api_contabilidade

SpecExp == Init /\ [][NextExp]_vars

(***************************************************************************)
(* The aggregation over stores the requests above can leave behind          *)
(***************************************************************************)

\* concerts_base.json after api_sync and api_add_concert: the calendar event
\* or none, and the local event of a body with a date or none, in either
\* order
AggCalendar == {e \in CalAnswers : TRUE}

AggLocal ==
    {<<>>} \cup {<<[id |-> local_id(1), start |-> start_iso_of(b),
                    summary |-> <<>>, body |-> b]>> :
                    b \in {a \in AddBodies : Strip(a.date) # <<>>}}

\* the override record update_concert leaves for the calendar event
AggOverrides ==
    {EmptyDict} \cup
    UNION {{Put(EmptyDict, f, Strip(v)) :
               v \in {w \in UpdateValues(f) : f = "substituto" \/ w # <<>>}} :
           f \in {"substituto", "cachet", "local", "artista"}}

\* an event of the base store without the body it was added with
stored_event(e) == [id |-> e.id, start |-> e.start, summary |-> e.summary]

\* agencies.json: none, or one agency with artist A and a base fee of 100
AggAgencies ==
    {<<>>,
     <<[id |-> <<"1">>, nome |-> <<"G">>,
        artistas |-> <<[nome |-> <<"A">>, cachet_base |-> <<"1", "0", "0">>]>>]>>}

\* config_contab.json: never written, or after the PUT of a threshold
AggConfigs ==
    {EmptyDict} \cup
    {put_config(EmptyDict, b) :
        b \in {c \in ConfigBodies : "irc_limiar_reduzida" \in DOMAIN c}}

InitAgg ==
    /\ \E cal \in AggCalendar, loc \in AggLocal, ov \in AggOverrides,
          first \in BOOLEAN :
          /\ cal = <<>> => (ov = EmptyDict /\ first)
          /\ loc = <<>> => first
          /\ base = IF first
                    THEN cal \o [i \in 1..Len(loc) |-> stored_event(loc[i])]
                    ELSE [i \in 1..Len(loc) |-> stored_event(loc[i])] \o cal
          /\ concert_data =
                [i \in {cal[k].id : k \in {j \in 1..Len(cal) : ov # EmptyDict}}
                      \cup {loc[k].id : k \in 1..Len(loc)} |->
                    IF i \in CalIds THEN ov ELSE overrides_of(loc[1].body)]
          /\ last_update =
                [i \in {cal[k].id : k \in {j \in 1..Len(cal) : ov # EmptyDict}}
                    |-> ov]
          /\ uuids = Len(loc)
    /\ agencies \in AggAgencies
    /\ distances \in {warm_distances(EmptyDict, {<<"v">>, <<"w">>}, net) :
                         net \in NetAnswers}
    /\ deleted = <<>>
    /\ despesas \in {normalized_rows(sheet) : sheet \in Sheets}
    /\ despesas_overrides = EmptyDict
    /\ contab_config \in AggConfigs
    /\ response = Resp("none", TRUE, <<>>)
    /\ nops = 0
    /\ inflight = Idle
    /\ writers = <<>>

NextAgg == api_contabilidade

SpecAgg == InitAgg /\ [][NextAgg]_vars

(***************************************************************************)
(* _calc_irc over configurations a PUT can leave behind                     *)
(***************************************************************************)

\* the bodies of PUT contab_config that set the four keys of _calc_irc: a
\* threshold of 0, 40.00 or 50.01 euro, rates of 16 or 17.5 %, 21 or 25.5 %
\* and a surtax of 0 or 1.5 %
IrcBodies ==
    {[irc_limiar_reduzida |-> Num(l), irc_taxa_reduzida |-> Num(r),
      irc_taxa_normal |-> Num(n), taxa_derrama |-> Num(d)] :
        l \in {0, 40 * Unit, 5001 * Cent}, r \in {160, 175},
        n \in {210, 255}, d \in {0, 15}}

\* the results of a month handed to _calc_irc
IrcResults ==
    {-1 * Unit, 0, 1 * Cent, 3333 * Cent, 3999 * Cent, 40 * Unit,
     4001 * Cent, 5001 * Cent, 9999 * Cent, 10005 * Cent}

InitIrc ==
    /\ base = <<>>
    /\ concert_data = EmptyDict
    /\ agencies = <<>>
    /\ distances = EmptyDict
    /\ deleted = <<>>
    /\ despesas = <<>>
    /\ despesas_overrides = EmptyDict
    /\ contab_config \in {put_config(EmptyDict, b) : b \in IrcBodies}
    /\ response = Resp("none", TRUE, <<>>)
    /\ uuids = 0
    /\ nops = 0
    /\ last_update = EmptyDict
    /\ inflight = Idle
    /\ writers = <<>>

\* one call tax = _calc_irc(resultado, cfg) under the stored configuration
calc_irc_call(resultado) ==
    /\ response' = Resp("calc_irc", TRUE,
                        [resultado |-> resultado,
                         tax |-> calc_irc(resultado,
                                          get_contab_config(contab_config))])
    /\ UNCHANGED <<stores, uuids, nops, last_update, inflight, writers>>

NextIrc == \E r \in IrcResults : calc_irc_call(r)

SpecIrc == InitIrc /\ [][NextIrc]_vars

(***************************************************************************)
(* _build_concerts_from_local over base stores with mixed kinds of start     *)
(***************************************************************************)

\* events as api_sync stores them: a date-only start, date-times with the
\* offsets +01:00, Z and -05:00 around the same midnight, a later date-time
\* and a start that is no date
SortPool ==
    {[id |-> <<"g", "1">>, summary |-> TitlePlain,
      start |-> <<"2", "0", "2", "4", "-", "0", "1", "-", "2", "0">>],
     [id |-> <<"g", "2">>, summary |-> TitlePlain,
      start |-> <<"2", "0", "2", "4", "-", "0", "1", "-", "2", "0", "T",
                  "0", "0", ":", "3", "0", ":", "0", "0", "+", "0", "1", ":", "0", "0">>],
     [id |-> <<"g", "3">>, summary |-> TitlePlain,
      start |-> <<"2", "0", "2", "4", "-", "0", "1", "-", "1", "9", "T",
                  "2", "3", ":", "4", "5", ":", "0", "0", "Z">>],
     [id |-> <<"g", "4">>, summary |-> TitlePlain,
      start |-> <<"2", "0", "2", "4", "-", "0", "1", "-", "1", "9", "T",
                  "2", "0", ":", "0", "0", ":", "0", "0", "-", "0", "5", ":", "0", "0">>],
     [id |-> <<"g", "5">>, summary |-> TitlePlain, start |-> StartFeb],
     [id |-> <<"g", "6">>, summary |-> TitlePlain, start |-> <<"x">>]}

InitSort ==
    /\ base \in {q \in SeqsUpTo(SortPool, MaxEvents) : Distinct(q)}
    /\ concert_data = EmptyDict
    /\ agencies = <<>>
    /\ distances = EmptyDict
    /\ deleted = <<>>
    /\ despesas = <<>>
    /\ despesas_overrides = EmptyDict
    /\ contab_config = EmptyDict
    /\ response = Resp("none", TRUE, <<>>)
    /\ uuids = 0
    /\ nops = 0
    /\ last_update = EmptyDict
    /\ inflight = Idle
    /\ writers = <<>>

NextSort == concerts

SpecSort == InitSort /\ [][NextSort]_vars

(***************************************************************************)
(* _enrich_despesas over one stored row                                      *)
(***************************************************************************)

\* the categories, taxable bases and VAT amounts of the row: amounts in
\* whole cents, 100.04, a VAT of 2.887 as a computed cell gives it, and an
\* amount typed as text
EnrichCategories ==
    {"Alimentação e Bebidas", "Alojamento e Hotelaria",
     "Combustíveis e Lubrificantes", "Outros", "Xpto", ""}

EnrichBases ==
    {Num(0), Num(10 * Unit), Num(100 * Unit), Num(10004 * Cent),
     Str(<<"1", "2", ",", "5", "0">>)}

EnrichVats ==
    {Num(0), Num(231 * Cent), Num(23 * Unit), Num(28870), Str(<<"x">>)}

InitEnrich ==
    /\ base = <<>>
    /\ concert_data = EmptyDict
    /\ agencies = <<>>
    /\ distances = EmptyDict
    /\ deleted = <<>>
    /\ despesas \in
          {normalized_rows(<<SheetRow(Num(45306), <<"1">>, c, b, v)>>) :
              c \in EnrichCategories, b \in EnrichBases, v \in EnrichVats}
    /\ despesas_overrides = EmptyDict
    /\ contab_config = EmptyDict
    /\ response = Resp("none", TRUE, <<>>)
    /\ uuids = 0
    /\ nops = 0
    /\ last_update = EmptyDict
    /\ inflight = Idle
    /\ writers = <<>>

NextEnrich == despesas_page

SpecEnrich == InitEnrich /\ [][NextEnrich]_vars

(***************************************************************************)
(* _build_contabilidade while other requests are served: the development    *)
(* server answers each request in a thread of its own, so a write request   *)
(* can run between two statements of the call                               *)
(***************************************************************************)

\* concerts_list when the loop pass of the i-th event found the distance
\* cache as kms[i]
concerts_of_reads(baseS, cdata, ags, kms) ==
    LET sorted == sort_by_start(baseS)
        ab     == build_artist_base_cachet(ags)
    IN  [i \in 1..Len(sorted) |-> concert_of(sorted[i], cdata, ab, kms[i])]

\* cfg = _get_contab_config(); taxa_iva = cfg['taxa_iva_rendimentos'] / 100
contabilidade_get_config ==
    /\ inflight.pc \in {"idle", "done"}
    /\ IF IsNumber(get_contab_config(contab_config).taxa_iva_rendimentos)
       THEN /\ inflight' = [Idle EXCEPT !.pc = "base",
                                        !.cfg = get_contab_config(contab_config),
                                        !.seen = {stores}]
            /\ UNCHANGED response
       ELSE /\ inflight' = Idle
            /\ response' = Resp("contabilidade", FALSE, <<>>)
    /\ UNCHANGED <<stores, uuids, nops, last_update, writers>>

\* base = load_json(CONCERTS_BASE_FILE, ...)
contabilidade_load_base ==
    /\ inflight.pc = "base"
    /\ inflight' = [inflight EXCEPT !.pc = "concert_data", !.base = base,
                                    !.seen = @ \cup {stores}]
    /\ UNCHANGED <<stores, response, uuids, nops, last_update, writers>>

\* concert_data = load_json(CONCERT_DATA_FILE, {})
contabilidade_load_concert_data ==
    /\ inflight.pc = "concert_data"
    /\ inflight' = [inflight EXCEPT !.pc = "agencies", !.cdata = concert_data,
                                    !.seen = @ \cup {stores}]
    /\ UNCHANGED <<stores, response, uuids, nops, last_update, writers>>

\* artist_base = _build_artist_base_cachet(); distances = _get_distances_mem()
\* hands out the dictionary every request shares, it reads nothing yet
contabilidade_load_agencies ==
    /\ inflight.pc = "agencies"
    /\ inflight' = [inflight EXCEPT !.pc = "events", !.ags = agencies,
                                    !.seen = @ \cup {stores}]
    /\ UNCHANGED <<stores, response, uuids, nops, last_update, writers>>

\* one pass of the loop over events_sorted: km = distances.get(local) looks
\* the venue up in the shared dictionary as it is now
contabilidade_get_km ==
    /\ inflight.pc = "events"
    /\ Len(inflight.kms) < Len(inflight.base)
    /\ inflight' = [inflight EXCEPT !.kms = Append(@, distances),
                                    !.seen = @ \cup {stores}]
    /\ UNCHANGED <<stores, response, uuids, nops, last_update, writers>>

\* despesas_data = load_json(DESPESAS_FILE, ...), the rest of the call and
\* the answer
contabilidade_load_despesas ==
    /\ inflight.pc = "events"
    /\ Len(inflight.kms) = Len(inflight.base)
    /\ inflight' = [inflight EXCEPT !.pc = "done", !.rows = despesas,
                                    !.seen = @ \cup {stores}]
    /\ response' = contabilidade_response(
                       inflight.cfg,
                       summaries_of(inflight.cfg,
                                    concerts_of_reads(inflight.base, inflight.cdata,
                                                      inflight.ags, inflight.kms),
                                    despesas))
    /\ UNCHANGED <<stores, uuids, nops, last_update, writers>>

\* the stores the call starts from: two events in the base store, no agency,
\* no expense row and a configuration never written
InitSnap ==
    /\ InitAgg
    /\ Len(base) = 2
    /\ agencies = <<>>
    /\ despesas = <<>>
    /\ contab_config = EmptyDict

\* the write requests that run while the call does
SnapWrites ==
    \/ \E items \in CalAnswers, net \in NetAnswers : api_sync(items, net)
    \/ \E e \in RequestIds, f \in Fields, net \in NetAnswers :
          \E v \in UpdateValues(f) : update_concert(e, f, v, net)
    \/ \E b \in ConfigBodies : api_put_contab_config(b)

NextSnap ==
    \/ contabilidade_get_config
    \/ contabilidade_load_base
    \/ contabilidade_load_concert_data
    \/ contabilidade_load_agencies
    \/ contabilidade_get_km
    \/ contabilidade_load_despesas
    \/ inflight.pc \notin {"idle", "done"} /\ nops < MaxInterleaved /\ SnapWrites

SpecSnap == InitSnap /\ [][NextSnap]_vars

(***************************************************************************)
(* update_concert statement by statement: app.run serves every request in   *)
(* a thread of its own, and the handler takes no lock                       *)
(***************************************************************************)

ID_G2 == <<"g", "2">>

\* the bodies of the update_concert requests in flight: two events, a fee, a
\* venue and a field that is not allowed
RaceBodies ==
    {[event_id |-> e, field |-> f, value |-> v] :
        e \in {ID_G1, ID_G2}, f \in {"cachet", "local"}, v \in {<<>>, <<"w">>}}
    \cup {[event_id |-> ID_G1, field |-> "x", value |-> <<"b">>]}

\* a request that has not run a statement yet
Started(b) ==
    [body |-> b, pc |-> "start", data |-> EmptyDict, ok |-> FALSE]

\* a file written with the entry set in the file as it is now
saved_file_reloaded(data, event_id, field, value) ==
    Put(concert_data, event_id,
        Put(GetOr(concert_data, event_id, EmptyDict), field, value))

\* data[event_id][field] = value on the dictionary the request loaded, which
\* save_json then writes as the whole file
saved_file(data, event_id, field, value) ==
    Put(data, event_id, Put(GetOr(data, event_id, EmptyDict), field, value))

\* the field check and data = load_json(CONCERT_DATA_FILE, {})
update_concert_load(w) ==
    /\ writers[w].pc = "start"
    /\ IF writers[w].body.field \notin Fields
       THEN /\ writers' = [writers EXCEPT ![w].pc = "done", ![w].ok = FALSE]
            /\ response' = Resp("update_concert", FALSE, <<>>)
       ELSE /\ writers' = [writers EXCEPT ![w].pc = "loaded",
                                          ![w].data = concert_data]
            /\ UNCHANGED response
    /\ UNCHANGED <<stores, uuids, nops, last_update, inflight>>

\* data[event_id][field] = value; save_json(CONCERT_DATA_FILE, data)
update_concert_save(w) ==
    LET b     == writers[w].body
        value == Strip(b.value)
    IN  /\ writers[w].pc = "loaded"
        /\ concert_data' = saved_file(writers[w].data, b.event_id, b.field, value)
        /\ writers' = [writers EXCEPT ![w].pc = "saved"]
        /\ nops' = nops + 1
        /\ last_update' =
               Put(last_update, b.event_id,
                   Put(GetOr(last_update, b.event_id, EmptyDict), b.field, value))
        /\ UNCHANGED <<base, agencies, distances, deleted, despesas,
                       despesas_overrides, contab_config, response, uuids,
                       inflight>>

\* km = driving_distance_km(value) for a venue; return {'ok': True, 'km': km}
update_concert_return(w, net) ==
    LET b == writers[w].body
    IN  /\ writers[w].pc = "saved"
        /\ distances' = IF b.field = "local"
                        THEN warm_distances(distances, {Strip(b.value)}, net)
                        ELSE distances
        /\ writers' = [writers EXCEPT ![w].pc = "done", ![w].ok = TRUE]
        /\ response' = Resp("update_concert", TRUE, <<>>)
        /\ UNCHANGED <<base, concert_data, agencies, deleted, despesas,
                       despesas_overrides, contab_config, uuids, nops,
                       last_update, inflight>>

\* MaxWriters requests arrive together; the override store is empty or holds
\* a title of the first event
InitRace ==
    /\ base = <<>>
    /\ concert_data \in {EmptyDict,
                         Put(EmptyDict, ID_G1, Put(EmptyDict, "evento", <<"b">>))}
    /\ agencies = <<>>
    /\ distances = EmptyDict
    /\ deleted = <<>>
    /\ despesas = <<>>
    /\ despesas_overrides = EmptyDict
    /\ contab_config = EmptyDict
    /\ response = Resp("none", TRUE, <<>>)
    /\ uuids = 0
    /\ nops = 0
    /\ last_update = EmptyDict
    /\ inflight = Idle
    /\ writers \in [1..MaxWriters -> {Started(b) : b \in RaceBodies}]

NextRace ==
    \E w \in DOMAIN writers :
        \/ update_concert_load(w)
        \/ update_concert_save(w)
        \/ \E net \in NetAnswers : update_concert_return(w, net)

SpecRace == InitRace /\ [][NextRace]_vars

(***************************************************************************)
(* The expense rows as the summaries and as the expense page show them      *)
(***************************************************************************)

\* rows of the sheet of 2024-01-15 and 2024-02-15: fuel, meals and another
\* category, with a VAT of an odd and of an even number of cents
SumPool ==
    {SheetRow(Num(d), <<"1">>, c, Num(b), Num(v)) :
        d \in {45306, 45337},
        c \in {"Combustíveis e Lubrificantes", "Alimentação e Bebidas", "Outros"},
        b \in {10 * Unit, 10004 * Cent},
        v \in {231 * Cent, 230 * Cent}}

InitSum ==
    /\ base = <<>>
    /\ concert_data = EmptyDict
    /\ agencies = <<>>
    /\ distances = EmptyDict
    /\ deleted = <<>>
    /\ despesas \in
          {normalized_rows(sheet) :
              sheet \in UNION {[1..n -> SumPool] : n \in 1..MaxRows}}
    /\ despesas_overrides = EmptyDict
    /\ contab_config = EmptyDict
    /\ response = Resp("none", TRUE, <<>>)
    /\ uuids = 0
    /\ nops = 0
    /\ last_update = EmptyDict
    /\ inflight = Idle
    /\ writers = <<>>

NextSum ==
    \/ api_contabilidade
    \/ despesas_page

SpecSum == InitSum /\ [][NextSum]_vars

(***************************************************************************)
(* Deleting calendar events that the calendar keeps returning               *)
(***************************************************************************)

\* every events().list() answer holds the two calendar events, each with one
\* of the starts and titles of CalPool
DelAnswers ==
    {<<[id |-> ID_G1, start |-> a.start, summary |-> a.summary],
       [id |-> ID_G2, start |-> b.start, summary |-> b.summary]>> :
        a \in CalPool, b \in CalPool}

\* the ids of the delete requests: the two calendar ids, padded, the id
\* of a concert added by hand, and none
DelIds == {<<" ">> \o ID_G1, ID_G2 \o <<" ">>, local_id(1), <<" ">>}

NextDel ==
    \/ \E items \in DelAnswers, net \in NetAnswers : api_sync(items, net)
    \/ \E b \in AddBodies, net \in NetAnswers : api_add_concert(b, net)
    \/ \E e \in DelIds : api_delete_concert(e)
    \/ concerts

SpecDel == Init /\ [][NextDel]_vars

(***************************************************************************)
(* The tax configuration alone: PUT and GET of /api/contab_config           *)
(***************************************************************************)

\* the bodies of PUT contab_config of this specification: those of
\* ConfigBodies, a body with an allowed and an unknown key, and a sheet name
CfgBodies ==
    ConfigBodies \cup
    {[k \in {"taxa_iva_rendimentos", "outra"} |->
        IF k = "outra" THEN Num(1) ELSE Num(130)],
     [k \in {"sheet_name"} |-> Str(<<"G">>)]}

NextCfg ==
    \/ \E b \in CfgBodies : api_put_contab_config(b)
    \/ api_get_contab_config

SpecCfg == Init /\ [][NextCfg]_vars

(***************************************************************************)
(* The properties                                                           *)
(***************************************************************************)

\* the last request was GET /api/contabilidade and it returned summaries; no
\* store was written since
Summaries == response.op = "contabilidade" /\ response.ok

\* the normalized events of the stores
Normalized == build_concerts_from_local(base, concert_data, agencies, distances)

\* the sum of the values of a mapping
RECURSIVE SumValues(_)
SumValues(f) ==
    IF DOMAIN f = {} THEN 0
    ELSE LET k == CHOOSE x \in DOMAIN f : TRUE
         IN  f[k] + SumValues([x \in DOMAIN f \ {k} |-> f[x]])

\* C1: after set_categoria stored a replacement category for the key of a
\* row, the monthly summaries are the ones computed with the replacement
\* category in place of the stored one (and so are the enriched rows of the
\* expense page).
C1_SummaryUsesReplacement ==
    /\ Summaries =>
          response.data =
              summaries_of(get_contab_config(contab_config), Normalized,
                           with_overrides(despesas, despesas_overrides))
    /\ response.op = "despesas" =>
          response.data =
              enrich_despesas(with_overrides(despesas, despesas_overrides))

\* the (year, month) keys of the summaries of the last response
SummaryKeys ==
    {<<response.data[i].year, response.data[i].month>> :
        i \in 1..Len(response.data)}

\* the months of all normalized revenue events
EventMonths == {<<Normalized[i].year, Normalized[i].month>> : i \in 1..Len(Normalized)}

\* the months of the expense rows whose date parses
RowMonths ==
    {<<strptime_ymd(despesas[i].data_fatura).year,
       strptime_ymd(despesas[i].data_fatura).month>> :
        i \in {j \in 1..Len(despesas) : strptime_ymd(despesas[j].data_fatura).ok}}

\* the months of the revenue events without substitute that have a fee above
\* zero or a known distance above zero
CountedEventMonths ==
    {<<Normalized[i].year, Normalized[i].month>> :
        i \in {j \in 1..Len(Normalized) :
                 /\ Normalized[j].substituto = <<>>
                 /\ \/ Normalized[j].cachet # <<>>
                       /\ to_float(Str(Normalized[j].cachet)) > 0
                    \/ to_float(Normalized[j].km) > 0}}

OneSummaryPerKey ==
    \A i, j \in 1..Len(response.data) :
        (response.data[i].year = response.data[j].year
         /\ response.data[i].month = response.data[j].month) => i = j

\* C2 (as claimed): the keys of the summaries are the months of all revenue
\* events and of all expense rows with a parseable date, one summary per key.
C2_KeysAreAllMonths ==
    Summaries => (SummaryKeys = EventMonths \cup RowMonths /\ OneSummaryPerKey)

\* C2 (amended): the keys of the summaries are the months of the revenue
\* events without substitute that have a positive fee or a positive known
\* distance, and of the expense rows with a parseable date, one summary per
\* key.
C2_KeysAreCountedMonths ==
    Summaries => (SummaryKeys = CountedEventMonths \cup RowMonths /\ OneSummaryPerKey)

\* summaries were returned for stores in which a month has a revenue event
\* but no summary, while another month has one
C2_Witness ==
    /\ Summaries
    /\ EventMonths \ SummaryKeys # {}
    /\ SummaryKeys \cap EventMonths # {}
    /\ SummaryKeys \ EventMonths # {}

\* the base record, the override record and the parsed title of a
\* normalized event
EventOf(c) == CHOOSE e \in {base[i] : i \in 1..Len(base)} : e.id = c.id

OverridesOf(c) == GetOr(concert_data, c.id, EmptyDict)

ParsedOf(c) == parse_event_title(EventOf(c).summary)

\* the base fee of a performer name, '' without one
BaseFeeOf(name) == GetOr(build_artist_base_cachet(agencies), name, <<>>)

\* the override fee when not empty, else the base fee of the final performer
FeeBySources(c) ==
    IF "cachet" \in DOMAIN OverridesOf(c) /\ OverridesOf(c)["cachet"] # <<>>
    THEN OverridesOf(c)["cachet"]
    ELSE BaseFeeOf(c.artista)

\* C3 (as claimed): each of performer, event, venue and substitute of a
\* normalized event is the override value when the override store holds a
\* non-empty value for the field and the title-parsed value otherwise; the
\* fee is the non-empty override fee, otherwise the base fee of the final
\* performer.
C3_NonEmptyOverrideElseParsed ==
    \A i \in 1..Len(Normalized) :
        LET c == Normalized[i]
        IN  /\ \A f \in TextFields :
                  c[f] = IF f \in DOMAIN OverridesOf(c) /\ OverridesOf(c)[f] # <<>>
                         THEN OverridesOf(c)[f] ELSE ParsedOf(c)[f]
            /\ c.cachet = FeeBySources(c)

\* C3 (amended): each of the four fields is the override value whenever the
\* override record holds the field, empty or not, and the title-parsed value
\* when it does not; the fee is '0' when the final substitute is not empty,
\* else the non-empty override fee, else the base fee of the final performer.
C3_StoredOverrideElseParsed ==
    \A i \in 1..Len(Normalized) :
        LET c == Normalized[i]
        IN  /\ \A f \in TextFields :
                  c[f] = IF f \in DOMAIN OverridesOf(c)
                         THEN OverridesOf(c)[f] ELSE ParsedOf(c)[f]
            /\ c.cachet = IF c.substituto # <<>> THEN <<"0">> ELSE FeeBySources(c)

\* the concerts page was handed an event with an empty override over a
\* field the title fills, and with a substitute next to an override fee
C3_Witness ==
    /\ response.op = "concerts"
    /\ \E i \in 1..Len(response.data) :
          LET c == response.data[i]
          IN  /\ \E f \in TextFields :
                    /\ f \in DOMAIN OverridesOf(c)
                    /\ OverridesOf(c)[f] = <<>>
                    /\ ParsedOf(c)[f] # <<>>
              /\ c.substituto # <<>>
              /\ "cachet" \in DOMAIN OverridesOf(c)
              /\ OverridesOf(c)["cachet"] # <<>>

\* C4: while event e is not deleted, the normalized event shows for each of
\* the fields performer, event, venue and substitute the value of the last
\* update_concert of e and that field, whatever the title parses to, whatever
\* a later sync wrote and whatever was set before.
C4_LastUpdateShown ==
    \A i \in 1..Len(Normalized) :
        LET c == Normalized[i]
        IN  c.id \in DOMAIN last_update =>
               \A f \in TextFields \cap DOMAIN last_update[c.id] :
                   c[f] = last_update[c.id][f]

\* a sync has just written a title whose parsed value differs from the value
\* update_concert set before, for a field that is shown empty
C4_Witness ==
    /\ response.op = "sync"
    /\ \E i \in 1..Len(Normalized) :
          LET c == Normalized[i]
          IN  /\ c.id \in DOMAIN last_update
              /\ \E f \in TextFields \cap DOMAIN last_update[c.id] :
                    /\ last_update[c.id][f] = <<>>
                    /\ ParsedOf(c)[f] # <<>>
                    /\ c[f] = <<>>

\* the normalized events without substitute
WithoutSubstitute == SelectSeq(Normalized, LAMBDA c : c.substituto = <<>>)

\* the summaries of the stores with the events that have a substitute left out
SummariesWithoutSubstitute ==
    summaries_of(get_contab_config(contab_config), WithoutSubstitute, despesas)

\* the revenue base and the VAT charged of a month in a sequence of
\* summaries, zero for a month without summary
RevenueIn(data, year, month) ==
    LET hit == SelectSeq(data, LAMBDA m : m.year = year /\ m.month = month)
    IN  IF hit = <<>> THEN <<0, 0>>
        ELSE <<hit[1].rendimentos, hit[1].iva_liquidado>>

\* C5: a normalized event with a non-empty substitute has fee zero whatever
\* the override fee and the base fee are, and the revenue base and the VAT
\* charged of every month are what they are without the events that have a
\* substitute.
C5_SubstituteEarnsNothing ==
    /\ \A i \in 1..Len(Normalized) :
          Normalized[i].substituto # <<>> =>
              /\ Normalized[i].cachet = <<"0">>
              /\ to_float(Str(Normalized[i].cachet)) = 0
    /\ Summaries =>
          /\ \A i \in 1..Len(response.data) :
                RevenueIn(SummariesWithoutSubstitute,
                          response.data[i].year, response.data[i].month)
                = <<response.data[i].rendimentos, response.data[i].iva_liquidado>>
          /\ \A i \in 1..Len(Normalized) :
                Normalized[i].substituto # <<>> =>
                    RevenueIn(response.data, Normalized[i].year, Normalized[i].month)
                    = RevenueIn(SummariesWithoutSubstitute,
                                Normalized[i].year, Normalized[i].month)

\* summaries were returned while a month holds an event with a substitute
\* and a fee source, next to an event that earns its fee
C5_Witness ==
    /\ Summaries
    /\ \E i, j \in 1..Len(Normalized) :
          /\ Normalized[i].substituto # <<>>
          /\ FeeBySources(Normalized[i]) # <<>>
          /\ Normalized[j].substituto = <<>>
          /\ Normalized[j].year = Normalized[i].year
          /\ Normalized[j].month = Normalized[i].month
          /\ RevenueIn(response.data, Normalized[j].year, Normalized[j].month)[1] > 0

\* distance x 0.40 summed over those of the given events that fall in a
\* month and have a known distance, rounded to 2 decimals (a distance is in
\* tenths of a km, 0.40 is 40 cents)
MileageOf(year, month, events) ==
    LET cs == SelectSeq(events,
                  LAMBDA c : c.year = year /\ c.month = month /\ c.km.t = "num")
    IN  Round2(Sum([i \in 1..Len(cs) |-> (cs[i].km.v * 40 * Unit) \div 1000]))

\* C6 (as claimed): the mileage value of a summary is the sum of distance x
\* 0.40 over all events of the month with a known distance, with or without
\* fee and with or without substitute.
C6_MileageOfAllEvents ==
    Summaries =>
        \A i \in 1..Len(response.data) :
            response.data[i].gastos_km =
                MileageOf(response.data[i].year, response.data[i].month, Normalized)

\* C6 (amended): the mileage value of a summary is the sum of distance x 0.40
\* over the events of the month that have no substitute and a known
\* distance, with or without fee; an event with a substitute or with unknown
\* distance adds nothing.
C6_MileageOfCountedEvents ==
    Summaries =>
        \A i \in 1..Len(response.data) :
            response.data[i].gastos_km =
                MileageOf(response.data[i].year, response.data[i].month,
                          WithoutSubstitute)

\* a summary shows mileage for a month that also holds an event with a
\* substitute and a known distance
C6_Witness ==
    /\ Summaries
    /\ \E i \in 1..Len(response.data), j \in 1..Len(Normalized) :
          /\ response.data[i].gastos_km > 0
          /\ Normalized[j].year = response.data[i].year
          /\ Normalized[j].month = response.data[i].month
          /\ Normalized[j].substituto # <<>>
          /\ Normalized[j].km.t = "num"

\* the permutations of a sequence
Perms(q) ==
    {[i \in 1..Len(q) |-> q[p[i]]] :
        p \in {f \in [1..Len(q) -> 1..Len(q)] :
                  \A i, j \in 1..Len(q) : f[i] = f[j] => i = j}}

C8_BreakdownSumsToBase ==
    Summaries =>
        \A i \in 1..Len(response.data) :
            SumValues(response.data[i].por_categoria)
            = response.data[i].gastos_despesas

\* C9: in every summary the emitted VAT balance is the emitted VAT charged
\* minus the emitted deductible VAT, exactly.
C9_BalanceIsChargedMinusDeductible ==
    Summaries =>
        \A i \in 1..Len(response.data) :
            response.data[i].iva_saldo
            = response.data[i].iva_liquidado - response.data[i].iva_deducivel

\* a summary with VAT charged and deductible VAT, for a month with a row
\* whose deductible VAT is not a whole number of cents
C9_Witness ==
    /\ Summaries
    /\ \E i \in 1..Len(response.data) :
          /\ response.data[i].iva_liquidado > 0
          /\ response.data[i].iva_deducivel > 0
          /\ response.data[i].iva_saldo # 0
          /\ \E j \in 1..Len(despesas) :
                /\ row_key(despesas[j]).ok
                /\ row_key(despesas[j]).key
                   = <<response.data[i].year, response.data[i].month>>
                /\ row_fiscal(despesas[j]).iva % Cent # 0

\* x is n / 1000 rounded to a whole number of cents
IsRounded2(x, n) ==
    /\ x % Cent = 0
    /\ 2 * (x * 1000 - n) <= 1000 * Cent
    /\ 2 * (n - x * 1000) <= 1000 * Cent

\* C10: _calc_irc returns (0, 0, 0) for a result that is zero or less; for a
\* positive result r it returns income tax = min(r, threshold) x reduced rate
\* + max(0, r - threshold) x normal rate, surtax = r x surtax rate on the
\* whole result, each rounded to 2 decimals, and subtotal = income tax +
\* surtax.
C10_CalcIrc ==
    response.op = "calc_irc" =>
        LET cfg  == get_contab_config(contab_config)
            r    == response.data.resultado
            tax  == response.data.tax
            thr  == cfg.irc_limiar_reduzida.v
            low  == IF r <= thr THEN r ELSE thr
            high == IF r - thr >= 0 THEN r - thr ELSE 0
        IN  IF r <= 0
            THEN tax = [irc |-> 0, derrama |-> 0, subtotal |-> 0]
            ELSE /\ IsRounded2(tax.irc, low * cfg.irc_taxa_reduzida.v
                                        + high * cfg.irc_taxa_normal.v)
                 /\ IsRounded2(tax.derrama, r * cfg.taxa_derrama.v)
                 /\ tax.subtotal = tax.irc + tax.derrama

\* an estimate for a positive result exactly at a positive threshold, with a
\* surtax
C10_Witness ==
    /\ response.op = "calc_irc"
    /\ response.data.resultado > 0
    /\ response.data.resultado
       = get_contab_config(contab_config).irc_limiar_reduzida.v
    /\ response.data.tax.irc > 0
    /\ response.data.tax.derrama > 0

\* x is n / 100 rounded to a whole number of cents
IsRoundedPct(x, n) ==
    /\ x % Cent = 0
    /\ 2 * (x * 100 - n) <= 100 * Cent
    /\ 2 * (n - x * 100) <= 100 * Cent

\* C11: in every summary the total tax liability is the estimator subtotal
\* plus the total autonomous tax, the total autonomous tax is the
\* representation part plus the mileage part, and the mileage part is 5 % of
\* the mileage value rounded to 2 decimals; a month whose result is zero or
\* less owes exactly its total autonomous tax.
C11_LiabilityIsSubtotalPlusAutonomous ==
    Summaries =>
        \A i \in 1..Len(response.data) :
            LET m == response.data[i]
            IN  /\ m.irc_total = m.irc_subtotal + m.tributacao_autonoma
                /\ m.tributacao_autonoma = m.ta_representacao + m.ta_km
                /\ IsRoundedPct(m.ta_km, m.gastos_km * TAXA_TA_KM)
                /\ m.resultado <= 0 => m.irc_total = m.tributacao_autonoma

\* summaries with a month of negative result that owes both parts of the
\* autonomous tax, and a month of positive result that owes income tax
C11_Witness ==
    /\ Summaries
    /\ \E i \in 1..Len(response.data) :
          /\ response.data[i].resultado < 0
          /\ response.data[i].ta_representacao > 0
          /\ response.data[i].ta_km > 0
          /\ response.data[i].irc_total > 0
    /\ \E i \in 1..Len(response.data) :
          /\ response.data[i].resultado > 0
          /\ response.data[i].irc_subtotal > 0

\* C12: for every content of the stores that the write requests can produce,
\* among them a configuration with a value that is no number under a rate or
\* threshold key, GET /api/contabilidade returns a sequence of summaries and
\* never ends in an error.
C12_AggregationNeverFails ==
    response.op = "contabilidade" => response.ok

SeenOf(i) == {st[i] : st \in inflight.seen}

\* C14: the summaries a call returns while write requests are served are the
\* summaries of one value of each store (configuration, base events,
\* overrides, agencies, distance cache, expense rows), each value one the
\* store had during the call, never a mix of two values of one store.
C14_OneSnapshotPerStore ==
    (inflight.pc = "done" /\ Summaries) =>
        \E c \in SeenOf(8), b \in SeenOf(1), cd \in SeenOf(2), ag \in SeenOf(3),
           d \in SeenOf(4), r \in SeenOf(6) :
            response.data = build_contabilidade(c, b, cd, ag, d, r)

\* the days from 0001-01-01 to the day before y-m-d
DaysBefore(y, m, d) ==
    365 * (y - 1) + ((y - 1) \div 4) - ((y - 1) \div 100) + ((y - 1) \div 400)
    + Sum([k \in 1..(m - 1) |-> DaysInMonth(y, k)]) + (d - 1)

\* the instant of a parsed start in minutes of UTC: the wall time minus
\* the offset
UtcMinutes(dt) ==
    DaysBefore(dt.year, dt.month, dt.day) * 1440 + dt.hour * 60 + dt.minute
    - dt.offset

\* the parsed start of the base event a normalized event was built from
StartOf(c) == parse_start(EventOf(c).start)

\* C15: the normalized events are in ascending order of start instant, for
\* date-only starts (UTC midnight) and date-time starts with any UTC offset.
C15_AscendingByInstant ==
    response.op = "concerts" =>
        \A i, j \in 1..Len(response.data) :
            (i < j /\ StartOf(response.data[i]).ok /\ StartOf(response.data[j]).ok)
            => UtcMinutes(StartOf(response.data[i]))
               <= UtcMinutes(StartOf(response.data[j]))

\* the fixed category set: the categories of _SNC_MAP
FixedCategories == DOMAIN SNC_MAP

\* the stored rows whose date parses to the month (y, m)
RowsIn(y, m) ==
    {j \in 1..Len(despesas) :
        row_key(despesas[j]).ok /\ row_key(despesas[j]).key = <<y, m>>}

\* the breakdown key of a row: 'Outros' for a blank category, else the
\* category as it is stored
LabelOf(row) == IF row.tipo_despesa = "" THEN "Outros" ELSE row.tipo_despesa

KnownRows ==
    SelectSeq(despesas, LAMBDA r : r.tipo_despesa \in FixedCategories)

\* the summary of month (y, m) among data, or the empty set
MonthIn(data, y, m) ==
    {data[i] : i \in {k \in 1..Len(data) : data[k].year = y /\ data[k].month = m}}

\* C17: a row whose category is blank or outside the fixed set gets VAT
\* deduction factor 1.0 (deductible VAT is its VAT rounded to 2 decimals,
\* non-deductible VAT zero), no representation flag, no autonomous tax and
\* ledger account 628 in the enriched row; in the aggregation it adds
\* nothing to the representation cost and the representation autonomous tax
\* of its month, and a month of such rows only has all VAT deductible and
\* the sum of the taxable bases as expense base.
C17_UnknownCategoryDefaults ==
    /\ response.op = "despesas" =>
          \A i \in 1..Len(response.data) :
              LET r == response.data[i]
              IN  r.row.tipo_despesa \notin FixedCategories =>
                     /\ r.iva_fator = 10
                     /\ r.iva_deducivel_calc = Round2(to_float(r.row.iva))
                     /\ r.iva_nao_deducivel = 0
                     /\ ~r.is_representacao
                     /\ r.tributacao_autonoma_val = 0
                     /\ r.snc_conta = "628"
    /\ Summaries =>
          \A i \in 1..Len(response.data) :
              LET m     == response.data[i]
                  rows  == RowsIn(m.year, m.month)
                  known == MonthIn(summaries_of(get_contab_config(contab_config),
                                                Normalized, KnownRows),
                                   m.year, m.month)
              IN  /\ \A k \in known :
                        /\ m.ta_representacao = k.ta_representacao
                        /\ m.gastos_representacao = k.gastos_representacao
                  /\ known = {} =>
                        /\ m.ta_representacao = 0
                        /\ m.gastos_representacao = 0
                  /\ (\A j \in rows : despesas[j].tipo_despesa \notin FixedCategories)
                     => /\ m.iva_deducivel =
                              Round2(Sum([j \in 1..Len(despesas) |->
                                            IF j \in rows
                                            THEN to_float(despesas[j].iva) ELSE 0]))
                        /\ m.gastos_despesas =
                              Round2(Sum([j \in 1..Len(despesas) |->
                                            IF j \in rows
                                            THEN to_float(despesas[j].base_tributavel)
                                            ELSE 0]))

\* summaries with a month that has a meal row and a row of a category
\* outside the fixed set with VAT
C17_Witness ==
    /\ Summaries
    /\ \E i \in 1..Len(response.data) :
          /\ response.data[i].ta_representacao > 0
          /\ response.data[i].iva_deducivel > 0
          /\ \E j \in RowsIn(response.data[i].year, response.data[i].month) :
                /\ despesas[j].tipo_despesa \notin FixedCategories
                /\ to_float(despesas[j].iva) > 0

\* C18: a month with an expense row whose date parses and with no revenue
\* event has exactly one summary, with revenue base 0, VAT charged 0 and a
\* net result of minus the month's total expense.
C18_ExpenseOnlyMonthAppears ==
    Summaries =>
        \A key \in RowMonths \ EventMonths :
            /\ Cardinality(MonthIn(response.data, key[1], key[2])) = 1
            /\ \A m \in MonthIn(response.data, key[1], key[2]) :
                  /\ m.rendimentos = 0
                  /\ m.iva_liquidado = 0
                  /\ m.resultado = 0 - m.gastos_total

\* summaries with a month of expense rows only and a positive total
\* expense, next to a month with revenue
C18_Witness ==
    /\ Summaries
    /\ \E key \in RowMonths \ EventMonths :
          \E m \in MonthIn(response.data, key[1], key[2]) : m.gastos_total > 0
    /\ \E i \in 1..Len(response.data) : response.data[i].rendimentos > 0

\* the stored rows whose invoice date parses
DatedRows == SelectSeq(despesas, LAMBDA r : strptime_ymd(r.data_fatura).ok)

\* the normalized events whose start parses, and the others
DatedEvents == SelectSeq(Normalized, LAMBDA c : StartOf(c).ok)
UndatedEvents == SelectSeq(Normalized, LAMBDA c : ~StartOf(c).ok)

\* the summaries of data for the key (0, 0), and for the other keys
SentinelPart(data) == SelectSeq(data, LAMBDA m : m.year = 0 /\ m.month = 0)
DatedPart(data) == SelectSeq(data, LAMBDA m : ~(m.year = 0 /\ m.month = 0))

\* C19: the summaries are the ones of the rows whose date parses alone (a
\* row whose date does not parse is in no summary and changes none); every
\* base event has a normalized event, with year and month 0 when its start
\* does not parse; the sums of those events are the summary of key (0, 0)
\* and the other summaries are the ones of the dated events; the aggregation
\* returns in every case.
C19_MalformedDatesAreAbsorbed ==
    /\ response.op = "contabilidade" => response.ok
    /\ Summaries =>
          LET cfg == get_contab_config(contab_config)
          IN  /\ response.data = summaries_of(cfg, Normalized, DatedRows)
              /\ {Normalized[i].id : i \in 1..Len(Normalized)} = IdsOf(base)
              /\ \A i \in 1..Len(Normalized) :
                    ~StartOf(Normalized[i]).ok =>
                        Normalized[i].year = 0 /\ Normalized[i].month = 0
              /\ SentinelPart(response.data)
                 = summaries_of(cfg, UndatedEvents, <<>>)
              /\ DatedPart(response.data)
                 = summaries_of(cfg, DatedEvents, despesas)

\* summaries of a dated month and of the key (0, 0) were returned for
\* stores with a row whose date does not parse, a row whose date does, and
\* an event with a fee whose start does not parse
C19_Witness ==
    /\ Summaries
    /\ Len(DatedRows) > 0
    /\ Len(DatedRows) < Len(despesas)
    /\ Len(DatedPart(response.data)) > 0
    /\ \E i \in 1..Len(response.data) :
          /\ response.data[i].year = 0
          /\ response.data[i].month = 0
          /\ response.data[i].rendimentos > 0

\* x is the money value n rounded to a whole number of cents
IsRoundedCents(x, n) ==
    /\ x % Cent = 0
    /\ 2 * (x - n) <= Cent
    /\ 2 * (n - x) <= Cent

\* the factor of the fixed table, in tenths: 0.0 for meals and lodging, 0.5
\* for fuel, 1.0 for every other category
FactorOf(cat) ==
    CASE cat \in {"Alimentação e Bebidas", "Alojamento e Hotelaria"} -> 0
      [] cat = "Combustíveis e Lubrificantes" -> 5
      [] OTHER -> 10

\* C20 (as claimed): for every enriched row deductible VAT is VAT x factor
\* rounded to 2 decimals, non-deductible VAT is VAT - deductible VAT, cost
\* is base + non-deductible VAT, the flag says whether the category is a
\* representation one, the autonomous tax is cost x 0.10 when flagged and 0
\* otherwise, and deductible + non-deductible VAT is the VAT.
C20_EnricherExactFormulas ==
    response.op = "despesas" =>
        \A i \in 1..Len(response.data) :
            LET r    == response.data[i]
                iva  == to_float(r.row.iva)
                rep  == r.row.tipo_despesa \in REPRESENTACAO_CATS
            IN  /\ IsRoundedCents(r.iva_deducivel_calc,
                                  (iva * FactorOf(r.row.tipo_despesa)) \div 10)
                /\ r.iva_nao_deducivel = iva - r.iva_deducivel_calc
                /\ r.custo_irc = to_float(r.row.base_tributavel) + r.iva_nao_deducivel
                /\ r.is_representacao = rep
                /\ r.tributacao_autonoma_val * 100
                   = (IF rep THEN r.custo_irc * TAXA_TRIB_AUTONOMA ELSE 0)
                /\ r.iva_deducivel_calc + r.iva_nao_deducivel = iva

\* C20 (amended): each of the four amounts is rounded to 2 decimals:
\* deductible VAT = round(VAT x factor), non-deductible VAT = round(VAT -
\* deductible VAT), cost = round(base + non-deductible VAT), autonomous tax
\* = round(cost x 0.10) when the category is a representation one and 0
\* otherwise; deductible + non-deductible VAT is the VAT rounded to cents,
\* which is the VAT itself when that is a whole number of cents; a meal of
\* base 100 and VAT 23 yields 0.00 / 23.00 / 123.00 / 12.30.
C20_EnricherRoundedFormulas ==
    response.op = "despesas" =>
        \A i \in 1..Len(response.data) :
            LET r    == response.data[i]
                iva  == to_float(r.row.iva)
                base_tributavel == to_float(r.row.base_tributavel)
                rep  == r.row.tipo_despesa \in REPRESENTACAO_CATS
            IN  /\ IsRoundedCents(r.iva_deducivel_calc,
                                  (iva * FactorOf(r.row.tipo_despesa)) \div 10)
                /\ IsRoundedCents(r.iva_nao_deducivel, iva - r.iva_deducivel_calc)
                /\ IsRoundedCents(r.custo_irc, base_tributavel + r.iva_nao_deducivel)
                /\ r.is_representacao = rep
                /\ IF rep
                   THEN IsRoundedPct(r.tributacao_autonoma_val,
                                     r.custo_irc * TAXA_TRIB_AUTONOMA)
                   ELSE r.tributacao_autonoma_val = 0
                /\ IsRoundedCents(r.iva_deducivel_calc + r.iva_nao_deducivel, iva)
                /\ iva % Cent = 0 =>
                      r.iva_deducivel_calc + r.iva_nao_deducivel = iva
                /\ (r.row.tipo_despesa = "Alimentação e Bebidas"
                    /\ base_tributavel = 100 * Unit /\ iva = 23 * Unit)
                   => /\ r.iva_deducivel_calc = 0
                      /\ r.iva_nao_deducivel = 23 * Unit
                      /\ r.custo_irc = 123 * Unit
                      /\ r.tributacao_autonoma_val = 1230 * Cent

\* the meal of base 100 and VAT 23 was enriched
C20_Witness ==
    /\ response.op = "despesas"
    /\ \E i \in 1..Len(response.data) :
          /\ response.data[i].row.tipo_despesa = "Alimentação e Bebidas"
          /\ to_float(response.data[i].row.base_tributavel) = 100 * Unit
          /\ to_float(response.data[i].row.iva) = 23 * Unit
          /\ response.data[i].tributacao_autonoma_val = 1230 * Cent

\* what GET /api/contab_config reads from the stored file
ReadConfig == get_contab_config(contab_config)

DocumentedKeys == DOMAIN CONTAB_DEFAULTS

\* what a PUT of body b is to the reader of the configuration: every
\* documented key the body carries reads as the body's value,
\* every other documented key reads as before, and no other key appears
PutReadsAs(b) ==
    /\ DOMAIN ReadConfig' = DocumentedKeys
    /\ \A k \in DocumentedKeys :
          ReadConfig'[k] = IF k \in DOMAIN b THEN b[k] ELSE ReadConfig[k]

\* a GET answers the configuration as read and writes nothing
GetReads ==
    response'.op = "get_contab_config"
        => /\ response'.data = ReadConfig
           /\ contab_config' = contab_config

\* C21 (as stated): the configuration reads as the documented defaults
\* before any PUT; every PUT makes each documented key it carries read as
\* the value it carries and leaves the other keys as they read before, so
\* that a key reads as the last PUT that carried it; a GET answers that
\* reading; and a PUT whose keys are all outside the allowed set leaves the
\* stored file and the reading unchanged.
C21_UnknownKeysLeaveStoredFile ==
    /\ ReadConfig = CONTAB_DEFAULTS
    /\ [][/\ GetReads
          /\ \A b \in CfgBodies :
                api_put_contab_config(b)
                    => /\ PutReadsAs(b)
                       /\ DOMAIN b \cap ALLOWED_KEYS = {}
                             => contab_config' = contab_config]_vars

\* C21 (amended): the same, except that a PUT whose keys are all outside the
\* allowed set leaves the reading unchanged, while the stored file becomes
\* the configuration as it read before the PUT, defaults included.
C21_LastPutWinsOnRead ==
    /\ ReadConfig = CONTAB_DEFAULTS
    /\ [][/\ GetReads
          /\ \A b \in CfgBodies :
                api_put_contab_config(b)
                    => /\ PutReadsAs(b)
                       /\ contab_config' = ReadConfig'
                       /\ DOMAIN b \cap ALLOWED_KEYS = {}
                             => ReadConfig' = ReadConfig]_vars

\* a GET after the PUTs of 6 %, of null and of a body with 13 % and an
\* unknown key: the revenue VAT reads 13 %, the surtax its default, and the
\* unknown key is absent
C21_Witness ==
    /\ response.op = "get_contab_config"
    /\ nops = 3
    /\ response.data.taxa_iva_rendimentos = Num(130)
    /\ response.data.taxa_derrama = CONTAB_DEFAULTS.taxa_derrama
    /\ "outra" \notin DOMAIN response.data
    /\ contab_config = response.data

\* the override store holds the entry the request w asked for
HasEntryOf(w) ==
    LET b == writers[w].body
    IN  /\ b.event_id \in DOMAIN concert_data
        /\ b.field \in DOMAIN concert_data[b.event_id]
        /\ concert_data[b.event_id][b.field] = Strip(b.value)

\* the file the request w writes or wrote, from the copy it loaded
FileOf(w) ==
    LET b    == writers[w].body
        copy == writers[w].data
        old  == IF b.event_id \in DOMAIN copy THEN copy[b.event_id] ELSE EmptyDict
    IN  [id \in DOMAIN copy \cup {b.event_id} |->
            IF id = b.event_id
            THEN [f \in DOMAIN old \cup {b.field} |->
                    IF f = b.field THEN Strip(b.value) ELSE old[f]]
            ELSE copy[id]]

\* C22: update_concert requests served together are not kept apart: a
\* request that has loaded the override store can always go on to write it,
\* whatever the others did meanwhile; what it writes is the whole file as
\* it loaded it plus its own entry, so that the store after a write is the
\* copy of one request with one entry set; and every request with an allowed
\* field reports success, also the one whose entry another request has
\* overwritten.
C22_WholeFileRewriteWithoutLock ==
    /\ \A w \in DOMAIN writers :
          /\ writers[w].pc = "loaded" => ENABLED update_concert_save(w)
          /\ writers[w].pc = "done"
                => writers[w].ok = (writers[w].body.field \in Fields)
    /\ nops > 0
          => \E w \in DOMAIN writers :
                /\ writers[w].pc \in {"saved", "done"}
                /\ writers[w].body.field \in Fields
                /\ concert_data = FileOf(w)

\* two requests for different entries have both reported success and the
\* store holds the entry of one of them only
C22_Witness ==
    \E w1, w2 \in DOMAIN writers :
        /\ writers[w1].pc = "done" /\ writers[w1].ok
        /\ writers[w2].pc = "done" /\ writers[w2].ok
        /\ <<writers[w1].body.event_id, writers[w1].body.field>>
              # <<writers[w2].body.event_id, writers[w2].body.field>>
        /\ ~HasEntryOf(w1)
        /\ HasEntryOf(w2)

\* the sum of f over the rows of month (y, m), f given per row index
SumIn(y, m, f) ==
    Sum([j \in 1..Len(despesas) |-> IF j \in RowsIn(y, m) THEN f[j] ELSE 0])

\* what the expense page publishes for the stored rows
Published == enrich_despesas(despesas)

\* the amounts of the stored rows before any rounding: deductible VAT,
\* income-tax-relevant cost and autonomous-tax contribution
ExactDed ==
    [j \in 1..Len(despesas) |->
        (to_float(despesas[j].iva) * FactorOf(despesas[j].tipo_despesa)) \div 10]

ExactCost ==
    [j \in 1..Len(despesas) |->
        to_float(despesas[j].base_tributavel)
            + to_float(despesas[j].iva) - ExactDed[j]]

ExactTa ==
    [j \in 1..Len(despesas) |->
        IF despesas[j].tipo_despesa \in REPRESENTACAO_CATS
        THEN (ExactCost[j] * TAXA_TRIB_AUTONOMA) \div 100 ELSE 0]

PublishedDed  == [j \in 1..Len(despesas) |-> Published[j].iva_deducivel_calc]
PublishedCost == [j \in 1..Len(despesas) |-> Published[j].custo_irc]
PublishedTa   == [j \in 1..Len(despesas) |-> Published[j].tributacao_autonoma_val]

\* the rows of month (y, m) whose amounts are whole cents before rounding
WholeCents(y, m) ==
    \A j \in RowsIn(y, m) :
        ExactDed[j] % Cent = 0 /\ ExactCost[j] % Cent = 0 /\ ExactTa[j] % Cent = 0

\* C23 (as stated): for every month the expense base, the deductible VAT and
\* the representation autonomous tax of the summary equal the sums of the
\* amounts the enricher publishes for the rows of the month.
C23_SummaryIsSumOfPublished ==
    Summaries =>
        \A i \in 1..Len(response.data) :
            LET m == response.data[i]
            IN  /\ m.gastos_despesas  = SumIn(m.year, m.month, PublishedCost)
                /\ m.iva_deducivel    = SumIn(m.year, m.month, PublishedDed)
                /\ m.ta_representacao = SumIn(m.year, m.month, PublishedTa)

\* C23 (amended): for every month the three values of the summary are the
\* sums of the unrounded amounts of the rows of the month, rounded to cents
\* once; they equal the sums of the published amounts when the amounts of
\* every row of the month are whole cents before rounding.
C23_SummaryIsRoundedSumOfExact ==
    Summaries =>
        \A i \in 1..Len(response.data) :
            LET m == response.data[i]
            IN  /\ m.gastos_despesas  = Round2(SumIn(m.year, m.month, ExactCost))
                /\ m.iva_deducivel    = Round2(SumIn(m.year, m.month, ExactDed))
                /\ m.ta_representacao = Round2(SumIn(m.year, m.month, ExactTa))
                /\ WholeCents(m.year, m.month) =>
                      /\ m.gastos_despesas  = SumIn(m.year, m.month, PublishedCost)
                      /\ m.iva_deducivel    = SumIn(m.year, m.month, PublishedDed)
                      /\ m.ta_representacao = SumIn(m.year, m.month, PublishedTa)

\* the summary of a January with two fuel rows of 2,31 VAT each: 2,31
\* deductible in the summary, 1,16 + 1,16 published
C23_Witness ==
    /\ Summaries
    /\ Len(despesas) = 2
    /\ \A j \in 1..2 :
          /\ despesas[j].tipo_despesa = "Combustíveis e Lubrificantes"
          /\ to_float(despesas[j].iva) = 231 * Cent
          /\ j \in RowsIn(2024, 1)
    /\ \E i \in 1..Len(response.data) :
          /\ response.data[i].year = 2024 /\ response.data[i].month = 1
          /\ response.data[i].iva_deducivel = 231 * Cent
          /\ SumIn(2024, 1, PublishedDed) = 232 * Cent

\* the deleted list holds calendar ids only, each once, and none of them is
\* in the base event store
DeletedStayOut ==
    \A i \in 1..Len(deleted) :
        /\ deleted[i] \notin IdsOf(base)
        /\ ~is_local_id(deleted[i])
        /\ \A j \in 1..Len(deleted) : deleted[j] = deleted[i] => j = i

\* C24: a delete_concert that succeeds for a calendar id leaves the id in
\* the deleted list; an id never leaves the list and is never in it twice;
\* no id of the list is in the base event store or in the normalized
\* revenue list, also after a sync whose calendar answer holds the id.
C24_DeletedCalendarEventsStayDeleted ==
    /\ [](DeletedStayOut)
    /\ [](response.op = "concerts" =>
            \A k \in 1..Len(response.data) : ~InSeq(deleted, response.data[k].id))
    /\ [][/\ Len(deleted') >= Len(deleted)
          /\ SubSeq(deleted', 1, Len(deleted)) = deleted
          /\ \A e \in DelIds :
                (api_delete_concert(e) /\ response'.ok /\ ~is_local_id(Strip(e)))
                    => InSeq(deleted', Strip(e))
          /\ \A items \in DelAnswers, net \in NetAnswers :
                api_sync(items, net) =>
                    \A i \in 1..Len(items) :
                        InSeq(deleted, items[i].id) => items[i].id \notin IdsOf(base')]_vars

\* after three requests the last of which is a sync, the first calendar
\* event is deleted and the base store holds the second one only
C24_Witness ==
    /\ response.op = "sync"
    /\ nops = 3
    /\ deleted = <<ID_G1>>
    /\ IdsOf(base) = {ID_G2}

\* whether a set_categoria request with these texts is one the handler must
\* refuse: no key, no category, or a category outside the fixed set
Refused(raw_key, raw_categoria) ==
    \/ Strip(raw_key) = <<>>
    \/ Strip(raw_categoria) = <<>>
    \/ \A c \in FixedCategories : Strip(raw_categoria) # <<c>>

\* C25: a set_categoria request without key, without category or with a
\* category outside the fixed set answers an error and leaves the override
\* store as it is; any other request answers ok and sets the stripped key
\* to the category, leaving the other keys alone; the store, empty at the
\* start, holds members of the fixed set under non-empty keys only.
C25_OverridesHoldFixedCategories ==
    /\ [](\A k \in DOMAIN despesas_overrides :
            k # <<>> /\ despesas_overrides[k] \in FixedCategories)
    /\ [][\A k \in KeyInputs, c \in CategoriaInputs :
            api_despesas_set_categoria(k, c) =>
                IF Refused(k, c)
                THEN /\ ~response'.ok
                     /\ despesas_overrides' = despesas_overrides
                ELSE /\ response'.ok
                     /\ DOMAIN despesas_overrides'
                           = DOMAIN despesas_overrides \cup {Strip(k)}
                     /\ Strip(c) = <<despesas_overrides'[Strip(k)]>>
                     /\ \A j \in DOMAIN despesas_overrides \ {Strip(k)} :
                           despesas_overrides'[j] = despesas_overrides[j]]_vars

\* a refused request after one that stored a fuel category for the invoice
\* of 15 January: the store still holds that one entry
C25_Witness ==
    /\ response.op = "set_categoria"
    /\ ~response.ok
    /\ DOMAIN despesas_overrides = {Strip(<<" ", "2", "0", "2", "4", "-", "0", "1",
                                             "-", "1", "5", "|", "F", "|", "1">>)}
    /\ \A k \in DOMAIN despesas_overrides :
          despesas_overrides[k] = "Combustíveis e Lubrificantes"

=============================================================================
